---------------------------- MODULE Spec2Model ----------------------------
(***************************************************************************)
(* Model of the context layer of web-transcript-parser:                    *)
(*   - the span algebra of the JSON tree (crates/spanner/src/json/types.rs)*)
(*   - the reveal planner (crates/context/src/http/transcript.rs and       *)
(*     crates/context/src/json/commit.rs)                                  *)
(*   - the structural comparators (crates/context/src/json/context.rs,     *)
(*     crates/context/src/json/enforce.rs, crates/context/src/http/        *)
(*     context.rs)                                                         *)
(* Bytes are one-character strings, byte strings are sequences of them,    *)
(* a RangeSet<usize> is the set of the positions it contains (positions    *)
(* are 0-based as in the source).                                          *)
(***************************************************************************)
EXTENDS Integers, Sequences, FiniteSets, TLC

VARIABLES
    op,         \* the operation under way
    input,      \* its arguments
    calls,      \* planner: the commit calls the traversal makes, in order
    trace,      \* planner: the commit calls the builder has received
    result      \* Running, or what the operation returned

vars == <<op, input, calls, trace, result>>

-----------------------------------------------------------------------------
(* Bounds of the model *)

\* JSON trees given to the reveal planner have at most this many nodes.
MaxNodes == 3

\* Messages carry at most this many headers besides the framing headers
\* that their body forces.
MaxHeaders == 2

\* Multi-message transcripts have at most this many requests and at most
\* this many responses.
MaxMessages == 2

-----------------------------------------------------------------------------
(* Bytes and small helpers *)

Min(S) == CHOOSE x \in S : \A y \in S : x <= y
Max(S) == CHOOSE x \in S : \A y \in S : x >= y

Range(s) == {s[i] : i \in 1..Len(s)}

\* Option: None, or Some(x).
None == <<>>
Some(x) == <<x>>

RECURSIVE Concat(_)
Concat(ss) == IF ss = <<>> THEN <<>> ELSE Head(ss) \o Concat(Tail(ss))

\* The union of the members of a sequence of sets.
UnionOf(ss) == UNION Range(ss)

SENTINEL == "*"
CRLF == <<"\r", "\n">>
COLON_SP == <<":", " ">>

UpperCase == <<"A","B","C","D","E","F","G","H","I","J","K","L","M",
               "N","O","P","Q","R","S","T","U","V","W","X","Y","Z">>
LowerCase == <<"a","b","c","d","e","f","g","h","i","j","k","l","m",
               "n","o","p","q","r","s","t","u","v","w","x","y","z">>

\* str::to_lowercase, byte by byte (ASCII).
to_lowercase_byte(c) ==
    IF \E i \in 1..Len(UpperCase) : UpperCase[i] = c
    THEN LowerCase[CHOOSE i \in 1..Len(UpperCase) : UpperCase[i] = c]
    ELSE c

to_lowercase(s) == [i \in 1..Len(s) |-> to_lowercase_byte(s[i])]

DecimalDigits == <<"0","1","2","3","4","5","6","7","8","9">>

\* The decimal text of a natural number (the value of Content-Length).
RECURSIVE to_decimal(_)
to_decimal(n) ==
    IF n < 10 THEN <<DecimalDigits[n + 1]>>
    ELSE to_decimal(n \div 10) \o <<DecimalDigits[(n % 10) + 1]>>

-----------------------------------------------------------------------------
(* JSON values before they are placed in a buffer: kind, literal text,     *)
(* children.  Object children are [key, value] pairs.                      *)

Leaf(kind, text) == [kind |-> kind, text |-> text, elems |-> <<>>]
Arr(elems) == [kind |-> "Array", text |-> <<>>, elems |-> elems]
Obj(pairs) == [kind |-> "Object", text |-> <<>>, elems |-> pairs]
Pair(key, value) == [key |-> key, value |-> value]

JNull == Leaf("Null", <<"n","u","l","l">>)
JTrue == Leaf("Bool", <<"t","r","u","e">>)
JFalse == Leaf("Bool", <<"f","a","l","s","e">>)
JNum1 == Leaf("Number", <<"1">>)
JNum2 == Leaf("Number", <<"2">>)
JNum10 == Leaf("Number", <<"1", ".", "0">>)
JNum1e5 == Leaf("Number", <<"1", "e", "5">>)
JNumBig ==
    Leaf("Number", <<"9","2","2","3","3","7","2","0","3","6","8","5","4","7","7","5","8","0","8">>)
JStrX == Leaf("String", <<"x">>)
JStrEmpty == Leaf("String", <<>>)
JRedacted == Leaf("Redacted", <<SENTINEL, SENTINEL>>)

Primitives == {"Null", "Bool", "Number", "String", "Redacted"}

KeyNames == <<"a", "b", "c", "d", "e", "f", "g", "h">>

\* Pairs built from a sequence of values, the i-th keyed by the i-th name.
Keyed(f) == [i \in 1..Len(f) |-> Pair(<<KeyNames[i]>>, f[i])]

\* Every tree of exactly n nodes (Tree) and every sequence of trees of n
\* nodes in total (Forest) over the leaves L.
RECURSIVE Tree(_, _), Forest(_, _)
Tree(n, L) ==
    IF n = 1 THEN L \cup {Arr(<<>>), Obj(<<>>)}
    ELSE {Arr(f) : f \in Forest(n - 1, L)}
         \cup {Obj(Keyed(f)) : f \in Forest(n - 1, L)}

Forest(n, L) ==
    IF n = 0 THEN {<<>>}
    ELSE UNION {{<<t>> \o f : t \in Tree(k, L), f \in Forest(n - k, L)}
                : k \in 1..n}

TreesUpTo(n, L) == UNION {Tree(k, L) : k \in 1..n}

-----------------------------------------------------------------------------
(* The JSON span parser's result for a rendered value: the tree with the   *)
(* span of every node.  sp is the whitespace written after ':' and ','.    *)

RECURSIVE Render(_, _), RenderElems(_, _), RenderPairs(_, _)
Render(v, sp) ==
    CASE v.kind = "String" -> <<"\"">> \o v.text \o <<"\"">>
      [] v.kind = "Array" -> <<"[">> \o RenderElems(v.elems, sp) \o <<"]">>
      [] v.kind = "Object" -> <<"{">> \o RenderPairs(v.elems, sp) \o <<"}">>
      [] OTHER -> v.text

RenderPair(p, sp) ==
    <<"\"">> \o p.key \o <<"\"", ":">> \o sp \o Render(p.value, sp)

RenderElems(es, sp) ==
    IF es = <<>> THEN <<>>
    ELSE IF Len(es) = 1 THEN Render(es[1], sp)
    ELSE Render(es[1], sp) \o <<",">> \o sp \o RenderElems(Tail(es), sp)

RenderPairs(ps, sp) ==
    IF ps = <<>> THEN <<>>
    ELSE IF Len(ps) = 1 THEN RenderPair(ps[1], sp)
    ELSE RenderPair(ps[1], sp) \o <<",">> \o sp \o RenderPairs(Tail(ps), sp)

\* The positions off .. off+len-1.
Indices(off, len) == off..(off + len - 1)

RECURSIVE Place(_, _, _), PlaceElems(_, _, _), PlacePairs(_, _, _)
Place(v, off, sp) ==
    CASE v.kind = "String" ->
            \* the span of a String excludes its quotation marks
            [kind |-> "String", span |-> Indices(off + 1, Len(v.text)),
             text |-> v.text, elems |-> <<>>]
      [] v.kind = "Array" ->
            [kind |-> "Array", span |-> Indices(off, Len(Render(v, sp))),
             text |-> <<>>, elems |-> PlaceElems(v.elems, off + 1, sp)]
      [] v.kind = "Object" ->
            [kind |-> "Object", span |-> Indices(off, Len(Render(v, sp))),
             text |-> <<>>, elems |-> PlacePairs(v.elems, off + 1, sp)]
      [] OTHER ->
            [kind |-> v.kind, span |-> Indices(off, Len(v.text)),
             text |-> v.text, elems |-> <<>>]

PlaceElems(es, off, sp) ==
    IF es = <<>> THEN <<>>
    ELSE <<Place(es[1], off, sp)>>
         \o PlaceElems(Tail(es), off + Len(Render(es[1], sp)) + 1 + Len(sp), sp)

\* "key":<sp>value ; the pair's span runs from the key's opening quotation
\* mark to the end of the value (its closing quotation mark included).
PlacePair(p, off, sp) ==
    [span |-> Indices(off, Len(RenderPair(p, sp))),
     key |-> [span |-> Indices(off + 1, Len(p.key)), text |-> p.key],
     value |-> Place(p.value, off + Len(p.key) + 3 + Len(sp), sp)]

PlacePairs(ps, off, sp) ==
    IF ps = <<>> THEN <<>>
    ELSE <<PlacePair(ps[1], off, sp)>>
         \o PlacePairs(Tail(ps), off + Len(RenderPair(ps[1], sp)) + 1 + Len(sp), sp)

-----------------------------------------------------------------------------
(* crates/spanner/src/json/types.rs *)

\* KeyValue::without_value
KeyValue_without_value(kv) == kv.span \ kv.value.span

\* Array::without_values
Array_without_values(array) ==
    LET start == Min(array.span)
        end == Max(array.span)
    IN  (start..start) \cup (end..end)

\* Array::separators
RECURSIVE DifferenceAll(_, _)
DifferenceAll(acc, ranges) ==
    IF ranges = <<>> THEN acc
    ELSE DifferenceAll(acc \ Head(ranges), Tail(ranges))

\* separators without the difference with without_values.
Array_separators_with_brackets(array) ==
    DifferenceAll(array.span,
                  [i \in 1..Len(array.elems) |-> array.elems[i].span])

Array_separators(array) ==
    LET array_range == array.span \ Array_without_values(array)
    IN  DifferenceAll(array_range,
                      [i \in 1..Len(array.elems) |-> array.elems[i].span])

\* Object::without_pairs
Object_without_pairs(object) ==
    DifferenceAll(object.span,
                  [i \in 1..Len(object.elems) |-> object.elems[i].span])

-----------------------------------------------------------------------------
(* The commit calls.  A call is the range set and the direction handed to  *)
(* builder.commit; what, part and msg record which range of which step of  *)
(* which message the call commits (they are not seen by the builder).      *)

Call(what, ranges, direction) ==
    [what |-> what, ranges |-> ranges, direction |-> direction]

Tagged(call, part, msg) ==
    [what |-> call.what, ranges |-> call.ranges, direction |-> call.direction,
     part |-> part, msg |-> msg]

TagAll(cs, part, msg) == [i \in 1..Len(cs) |-> Tagged(cs[i], part, msg)]

-----------------------------------------------------------------------------
(* crates/context/src/json/commit.rs: JsonCommit::commit_structure         *)

RECURSIVE commit_structure(_, _)

\* commit_structure committing an array as commit_array does: the whole
\* array first, then its brackets.
commit_structure_whole_array(direction, json) ==
    CASE json.kind = "Object" ->
            <<Call("without_pairs", Object_without_pairs(json), direction)>>
            \o Concat([i \in 1..Len(json.elems) |->
                  <<Call("without_value", KeyValue_without_value(json.elems[i]),
                         direction)>>
                  \o commit_structure(direction, json.elems[i].value)])
      [] json.kind = "Array" ->
            <<Call("array", json.span, direction),
              Call("without_values", Array_without_values(json), direction)>>
            \o Concat([i \in 1..Len(json.elems) |->
                  commit_structure(direction, json.elems[i])])
      [] OTHER -> <<>>

commit_structure(direction, json) ==
    CASE json.kind = "Object" ->
            <<Call("without_pairs", Object_without_pairs(json), direction)>>
            \o Concat([i \in 1..Len(json.elems) |->
                  <<Call("without_value", KeyValue_without_value(json.elems[i]),
                         direction)>>
                  \o commit_structure(direction, json.elems[i].value)])
      [] json.kind = "Array" ->
            <<Call("without_values", Array_without_values(json), direction),
              Call("separators", Array_separators(json), direction)>>
            \o Concat([i \in 1..Len(json.elems) |->
                  commit_structure(direction, json.elems[i])])
      [] OTHER -> <<>>

(* crates/context/src/json/commit.rs: JsonCommit::commit_value            *)
(* What a traversal does: the commit calls it makes when every one of them *)
(* returns Ok, and how it ends then.                                       *)

Done(calls_, outcome) == [calls |-> calls_, outcome |-> outcome]

OkResult == [status |-> "Ok", error |-> "", value |-> <<>>]

\* JsonCommitError::new(msg) and JsonCommitError::new_with_source(msg, e)
JsonCommitError(msg, source) ==
    [status |-> "Err", error |-> msg, value |-> source]

\* first, and rest after it unless first ended in an error (`?`).
ThenCommit(first, rest) ==
    IF first.outcome # OkResult THEN first
    ELSE Done(first.calls \o rest.calls, rest.outcome)

\* The maximal runs of consecutive positions of a set, in ascending order:
\* RangeSet::iter_ranges.
RECURSIVE iter_ranges(_)
iter_ranges(S) ==
    IF S = {} THEN <<>>
    ELSE LET start == Min(S)
             end == Max({k \in S : \A m \in start..k : m \in S})
         IN  <<start..end>> \o iter_ranges(S \ (start..end))

\* lines 261-309: commit_number, commit_bool, commit_null
commit_leaf(what, leaf, direction) ==
    Done(<<Call(what, leaf.span, direction)>>, OkResult)

\* lines 237-252
commit_string(string, direction) ==
    IF string.span = {} THEN Done(<<>>, OkResult)
    ELSE Done(<<Call("string", string.span, direction)>>, OkResult)

RECURSIVE commit_value(_, _), commit_values(_, _), commit_key_values(_, _)

\* lines 168-184
commit_key_value(kv, direction) ==
    ThenCommit(
        Done(<<Call("without_value", KeyValue_without_value(kv), direction)>>,
             OkResult),
        commit_value(kv.value, direction))

\* lines 151-153: for kv in &object.elems { self.commit_key_value(..)?; }
commit_key_values(kvs, direction) ==
    IF kvs = <<>> THEN Done(<<>>, OkResult)
    ELSE ThenCommit(commit_key_value(Head(kvs), direction),
                    commit_key_values(Tail(kvs), direction))

\* lines 141-156
commit_object(object, direction) ==
    ThenCommit(
        Done(<<Call("without_pairs", Object_without_pairs(object), direction)>>,
             OkResult),
        commit_key_values(object.elems, direction))

\* lines 222-224: for elem in &array.elems { self.commit_value(..)?; }
commit_values(elems, direction) ==
    IF elems = <<>> THEN Done(<<>>, OkResult)
    ELSE ThenCommit(commit_value(Head(elems), direction),
                    commit_values(Tail(elems), direction))

\* The separators of an array, one call for each of their ranges.
SeparatorCalls(array, direction) ==
    LET ranges == iter_ranges(Array_separators(array))
    IN  [i \in 1..Len(ranges) |-> Call("separators", ranges[i], direction)]

\* commit_array without the commit of the whole array.
commit_array_without_whole(array, direction) ==
    IF array.elems # <<>>
    THEN ThenCommit(
             Done(<<Call("without_values", Array_without_values(array),
                         direction)>>
                  \o SeparatorCalls(array, direction), OkResult),
             commit_values(array.elems, direction))
    ELSE Done(<<>>, OkResult)

\* lines 196-228
commit_array(array, direction) ==
    ThenCommit(
        Done(<<Call("array", array.span, direction)>>, OkResult),
        IF array.elems # <<>>
        THEN ThenCommit(
                 Done(<<Call("without_values", Array_without_values(array),
                             direction)>>
                      \o SeparatorCalls(array, direction), OkResult),
                 commit_values(array.elems, direction))
        ELSE Done(<<>>, OkResult))

\* lines 114-129
commit_value(value, direction) ==
    CASE value.kind = "Object" -> commit_object(value, direction)
      [] value.kind = "Array" -> commit_array(value, direction)
      [] value.kind = "String" -> commit_string(value, direction)
      [] value.kind = "Number" -> commit_leaf("number", value, direction)
      [] value.kind = "Bool" -> commit_leaf("boolean", value, direction)
      [] value.kind = "Null" -> commit_leaf("null", value, direction)
      [] value.kind = "Redacted" ->
            Done(<<>>, JsonCommitError("cannot commit redacted value", None))

\* The message of the JsonCommitError that wraps the error of a call.
FailureMessage(what) ==
    CASE what = "without_pairs" -> "failed to commit object"
      [] what = "without_value"
            -> "failed to commit key-value pair excluding the value"
      [] what = "array" -> "failed to commit array"
      [] what = "without_values" -> "failed to commit array excluding values"
      [] what = "separators" -> "failed to commit array separators"
      [] what = "string" -> "failed to commit string"
      [] what = "number" -> "failed to commit number"
      [] what = "boolean" -> "failed to commit boolean"
      [] what = "null" -> "failed to commit null"

(* crates/context/src/http/transcript.rs: reveal_json_structure            *)

RECURSIVE reveal_json_structure(_, _)

\* reveal_json_structure committing each pair whole instead of without its
\* value.
reveal_json_structure_whole_pairs(direction, json) ==
    CASE json.kind = "Object" ->
            <<Call("without_pairs", Object_without_pairs(json), direction)>>
            \o Concat([i \in 1..Len(json.elems) |->
                  <<Call("without_value", json.elems[i].span, direction)>>])
      [] json.kind = "Array" ->
            <<Call("without_values", Array_without_values(json), direction),
              Call("separators", Array_separators(json), direction)>>
            \o Concat([i \in 1..Len(json.elems) |->
                  reveal_json_structure(direction, json.elems[i])])
      [] OTHER -> <<>>

reveal_json_structure(direction, json) ==
    CASE json.kind = "Object" ->
            <<Call("without_pairs", Object_without_pairs(json), direction)>>
            \o Concat([i \in 1..Len(json.elems) |->
                  <<Call("without_value", KeyValue_without_value(json.elems[i]),
                         direction)>>
                  \o reveal_json_structure(direction, json.elems[i].value)])
      [] json.kind = "Array" ->
            <<Call("without_values", Array_without_values(json), direction),
              Call("separators", Array_separators(json), direction)>>
            \o Concat([i \in 1..Len(json.elems) |->
                  reveal_json_structure(direction, json.elems[i])])
      [] OTHER -> <<>>

-----------------------------------------------------------------------------
(* HTTP messages before they are placed in a buffer.  An optional value is *)
(* <<>> (None) or <<x>> (Some(x)).                                         *)

HeaderOf(name, value) == [name |-> name, value |-> value]

NoBody == [class |-> "None", json |-> JNull, bytes |-> <<>>, trailers |-> <<>>]
JsonBody(json) ==
    [class |-> "Json", json |-> json, bytes |-> <<>>, trailers |-> <<>>]
UnknownBody(bytes) ==
    [class |-> "Unknown", json |-> JNull, bytes |-> bytes, trailers |-> <<>>]
ChunkedBody(bytes, trailers) ==
    [class |-> "Chunked", json |-> JNull, bytes |-> bytes, trailers |-> trailers]

RequestOf(method, target, headers, body) ==
    [method |-> method, target |-> target, headers |-> headers, body |-> body]

ResponseOf(code, headers, body) ==
    [code |-> code, headers |-> headers, body |-> body]

HTTP_VERSION == <<"H", "T", "T", "P", "/", "1", ".", "1">>
REASON_OK == <<"O", "K">>
SP == <<" ">>

N_host == <<"h", "o", "s", "t">>
N_content_length == <<"c", "o", "n", "t", "e", "n", "t", "-", "l", "e", "n", "g", "t", "h">>
N_content_type == <<"c", "o", "n", "t", "e", "n", "t", "-", "t", "y", "p", "e">>
N_transfer_encoding == <<"t", "r", "a", "n", "s", "f", "e", "r", "-", "e", "n", "c", "o", "d", "i", "n", "g">>

N_Content_Length == <<"C", "o", "n", "t", "e", "n", "t", "-", "L", "e", "n", "g", "t", "h">>
N_Content_Type == <<"C", "o", "n", "t", "e", "n", "t", "-", "T", "y", "p", "e">>
N_Transfer_Encoding == <<"T", "r", "a", "n", "s", "f", "e", "r", "-", "E", "n", "c", "o", "d", "i", "n", "g">>
V_application_json == <<"a", "p", "p", "l", "i", "c", "a", "t", "i", "o", "n", "/", "j", "s", "o", "n">>
V_chunked == <<"c", "h", "u", "n", "k", "e", "d">>

RenderHeader(h) == h.name \o COLON_SP \o h.value \o CRLF

RenderHeaders(hs) == Concat([i \in 1..Len(hs) |-> RenderHeader(hs[i])])

\* The chunk-size line of a chunk, and the last-chunk line.
ChunkLine(bytes) == to_decimal(Len(bytes)) \o CRLF
LastChunkLine == <<"0">> \o CRLF

\* The bytes that follow the blank line ending the headers.
BodyBytes(body) ==
    CASE body.class = "Json" -> Render(body.json, <<>>)
      [] body.class = "Unknown" -> body.bytes
      [] body.class = "Chunked" ->
            ChunkLine(body.bytes) \o body.bytes \o CRLF \o LastChunkLine
            \o RenderHeaders(body.trailers) \o CRLF
      [] OTHER -> <<>>

\* The framing headers a message with this body carries.
FramingHeaders(body) ==
    CASE body.class = "Json" ->
            <<HeaderOf(N_Content_Type, V_application_json),
              HeaderOf(N_Content_Length, to_decimal(Len(BodyBytes(body))))>>
      [] body.class = "Unknown" ->
            <<HeaderOf(N_Content_Length, to_decimal(Len(BodyBytes(body))))>>
      [] body.class = "Chunked" ->
            <<HeaderOf(N_Transfer_Encoding, V_chunked)>>
      [] OTHER -> <<>>

AllHeaders(m) == m.headers \o FramingHeaders(m.body)

RequestLine(m) == m.method \o SP \o m.target \o SP \o HTTP_VERSION \o CRLF
StatusLine(m) == HTTP_VERSION \o SP \o m.code \o SP \o REASON_OK \o CRLF

RenderRequest(m) ==
    RequestLine(m) \o RenderHeaders(AllHeaders(m)) \o CRLF \o BodyBytes(m.body)

RenderResponse(m) ==
    StatusLine(m) \o RenderHeaders(AllHeaders(m)) \o CRLF \o BodyBytes(m.body)

-----------------------------------------------------------------------------
(* The HTTP span parser's result for rendered messages (spanner::http).    *)

Spanned(off, text) == [span |-> Indices(off, Len(text)), text |-> text]

PlaceHeader(h, off) ==
    [span |-> Indices(off, Len(h.name) + Len(COLON_SP) + Len(h.value)),
     name |-> Spanned(off, h.name),
     value |-> Spanned(off + Len(h.name) + Len(COLON_SP), h.value)]

RECURSIVE PlaceHeaders(_, _)
PlaceHeaders(hs, off) ==
    IF hs = <<>> THEN <<>>
    ELSE <<PlaceHeader(hs[1], off)>>
         \o PlaceHeaders(Tail(hs), off + Len(RenderHeader(hs[1])))

\* Body at off: its span is everything after the blank line; the content
\* of a chunked body is the chunk data.
PlaceBody(body, off) ==
    CASE body.class = "Json" ->
            Some([span |-> Indices(off, Len(BodyBytes(body))),
                  content |-> [class |-> "Json",
                               json |-> Place(body.json, off, <<>>),
                               span |-> {}, bytes |-> <<>>]])
      [] body.class = "Unknown" ->
            Some([span |-> Indices(off, Len(BodyBytes(body))),
                  content |-> [class |-> "Unknown", json |-> JNull,
                               span |-> Indices(off, Len(body.bytes)),
                               bytes |-> body.bytes]])
      [] body.class = "Chunked" ->
            Some([span |-> Indices(off, Len(BodyBytes(body))),
                  content |-> [class |-> "Unknown", json |-> JNull,
                               span |-> Indices(off + Len(ChunkLine(body.bytes)),
                                                Len(body.bytes)),
                               bytes |-> body.bytes]])
      [] OTHER -> None

PlaceBoundaries(body, off) ==
    IF body.class = "Chunked"
    THEN Some(<<Indices(off, Len(ChunkLine(body.bytes))),
                Indices(off + Len(ChunkLine(body.bytes)) + Len(body.bytes)
                            + Len(CRLF),
                        Len(LastChunkLine))>>)
    ELSE None

PlaceTrailers(body, off) ==
    IF body.class = "Chunked"
    THEN Some(PlaceHeaders(body.trailers,
                           off + Len(ChunkLine(body.bytes)) + Len(body.bytes)
                               + Len(CRLF) + Len(LastChunkLine)))
    ELSE None

PlaceRequest(m, off) ==
    LET hoff == off + Len(RequestLine(m))
        boff == hoff + Len(RenderHeaders(AllHeaders(m))) + Len(CRLF)
    IN  [span |-> Indices(off, Len(RenderRequest(m))),
         request |-> [method |-> Spanned(off, m.method),
                      target |-> Spanned(off + Len(m.method) + 1, m.target)],
         headers |-> PlaceHeaders(AllHeaders(m), hoff),
         body |-> PlaceBody(m.body, boff)]

PlaceResponse(m, off) ==
    LET hoff == off + Len(StatusLine(m))
        boff == hoff + Len(RenderHeaders(AllHeaders(m))) + Len(CRLF)
    IN  [span |-> Indices(off, Len(RenderResponse(m))),
         status |-> [code |-> Spanned(off + Len(HTTP_VERSION) + 1, m.code)],
         headers |-> PlaceHeaders(AllHeaders(m), hoff),
         body |-> PlaceBody(m.body, boff),
         boundaries |-> PlaceBoundaries(m.body, boff),
         trailers |-> PlaceTrailers(m.body, boff)]

\* Requests::new(sent).collect(), Responses::new(received).collect()
RECURSIVE PlaceRequests(_, _), PlaceResponses(_, _)
PlaceRequests(ms, off) ==
    IF ms = <<>> THEN <<>>
    ELSE <<PlaceRequest(ms[1], off)>>
         \o PlaceRequests(Tail(ms), off + Len(RenderRequest(ms[1])))

PlaceResponses(ms, off) ==
    IF ms = <<>> THEN <<>>
    ELSE <<PlaceResponse(ms[1], off)>>
         \o PlaceResponses(Tail(ms), off + Len(RenderResponse(ms[1])))

\* HttpTranscript::parse
HttpTranscript(reqs, resps) ==
    [requests |-> PlaceRequests(reqs, 0), responses |-> PlaceResponses(resps, 0)]

\* Header::without_value: name, colon and whitespace
Header_without_value(header) == header.span \ header.value.span

\* Request::without_data, Response::without_data: the span minus all header
\* values and the body
Message_without_data(message) ==
    (DifferenceAll(message.span,
                   [i \in 1..Len(message.headers) |->
                        message.headers[i].value.span]))
    \ (IF message.body = None THEN {} ELSE message.body[1].span)

\* headers_with_name: the headers with that name, compared without case,
\* in source order
headers_with_name(message, name) ==
    LET Matches(h) == to_lowercase(h.name.text) = to_lowercase(name)
    IN  SelectSeq(message.headers, Matches)

-----------------------------------------------------------------------------
(* crates/context/src/http/transcript.rs: HttpTranscript::reveal_structure *)

FRAMING_HEADERS == <<N_host, N_content_length, N_content_type, N_transfer_encoding>>

\* lines 129-141 and 158-170: the body of a message
BodyCalls(message, direction) ==
    IF message.body = None THEN <<>>
    ELSE LET content == message.body[1].content
         IN  CASE content.class = "Json" ->
                     reveal_json_structure(direction, content.json)
               [] content.class = "Unknown" ->
                     <<Call("unknown", content.span, direction)>>
               [] OTHER -> <<>>

\* lines 119-121: every request header without its value
RequestHeaderCalls(request) ==
    [i \in 1..Len(request.headers) |->
        Call("without_value", Header_without_value(request.headers[i]), "Sent")]

\* lines 123-127: the first request header of each framing-critical name
RequestFramingCalls(request) ==
    Concat([k \in 1..Len(FRAMING_HEADERS) |->
        LET found == headers_with_name(request, FRAMING_HEADERS[k])
        IN  IF found # <<>>
            THEN <<Call("header", found[1].span, "Sent")>>
            ELSE <<>>])

\* The other policy for the response headers: every header without its
\* value, whatever its name.
ResponseHeaderCalls_without_value(response) ==
    [i \in 1..Len(response.headers) |->
        Call("without_value", Header_without_value(response.headers[i]),
             "Received")]

\* lines 147-156: a response header, whole when its name is framing-critical
ResponseHeaderCalls(response) ==
    [i \in 1..Len(response.headers) |->
        LET header == response.headers[i]
        IN  IF to_lowercase(header.name.text) \in Range(FRAMING_HEADERS)
            THEN Call("header", header.span, "Received")
            ELSE Call("without_value", Header_without_value(header), "Received")]

\* lines 172-176
BoundaryCalls(response) ==
    IF response.boundaries = None THEN <<>>
    ELSE LET boundaries == response.boundaries[1]
         IN  [i \in 1..Len(boundaries) |->
                 Call("boundary", boundaries[i], "Received")]

\* lines 178-182
TrailerCalls(response) ==
    IF response.trailers = None THEN <<>>
    ELSE LET trailers == response.trailers[1]
         IN  [i \in 1..Len(trailers) |->
                 Call("without_value", Header_without_value(trailers[i]),
                      "Received")]

\* lines 115-142: one iteration of the loop over the requests
RequestCalls(request, msg) ==
    <<Tagged(Call("without_data", Message_without_data(request), "Sent"),
             "envelope", msg),
      Tagged(Call("target", request.request.target.span, "Sent"),
             "target", msg)>>
    \o TagAll(RequestHeaderCalls(request), "headers", msg)
    \o TagAll(RequestFramingCalls(request), "headers", msg)
    \o TagAll(BodyCalls(request, "Sent"), "body", msg)

\* The response loop committing the trailers before the body.
ResponseCalls_trailers_first(response, msg) ==
    <<Tagged(Call("without_data", Message_without_data(response), "Received"),
             "envelope", msg)>>
    \o TagAll(ResponseHeaderCalls(response), "headers", msg)
    \o TagAll(TrailerCalls(response), "trailers", msg)
    \o TagAll(BodyCalls(response, "Received"), "body", msg)
    \o TagAll(BoundaryCalls(response), "boundaries", msg)

\* lines 144-183: one iteration of the loop over the responses
ResponseCalls(response, msg) ==
    <<Tagged(Call("without_data", Message_without_data(response), "Received"),
             "envelope", msg)>>
    \o TagAll(ResponseHeaderCalls(response), "headers", msg)
    \o TagAll(BodyCalls(response, "Received"), "body", msg)
    \o TagAll(BoundaryCalls(response), "boundaries", msg)
    \o TagAll(TrailerCalls(response), "trailers", msg)

\* The commit calls of reveal_structure when no call fails.  Messages are
\* numbered in the order of the two loops: requests, then responses.
reveal_structure(transcript) ==
    Concat([i \in 1..Len(transcript.requests) |->
                RequestCalls(transcript.requests[i], i)])
    \o Concat([i \in 1..Len(transcript.responses) |->
                ResponseCalls(transcript.responses[i],
                              Len(transcript.requests) + i)])

-----------------------------------------------------------------------------
(* Results *)

\* What an operation has returned: nothing yet, Ok(v), Err(e), or a panic
\* with its message.  Ok is Ok(()).
Running == [status |-> "running", error |-> "", value |-> <<>>]
Returns(v) == [status |-> "Ok", error |-> "", value |-> v]
Ok == Returns(<<>>)
Err(e) == [status |-> "Err", error |-> e, value |-> <<>>]
Panics(msg) == [status |-> "Panic", error |-> msg, value |-> <<>>]

-----------------------------------------------------------------------------
(* crates/context/src/json/context.rs: JsonContextVisitor                  *)

\* find returning the last pair with the key instead of the first.
find_last(elems, key) ==
    LET matching == {i \in 1..Len(elems) : elems[i].key.text = key}
    IN  IF matching = {} THEN None ELSE Some(elems[Max(matching)])

\* value.elems.iter().find(|e| e.key.span().as_str() == key)
find(elems, key) ==
    LET matching == {i \in 1..Len(elems) : elems[i].key.text = key}
    IN  IF matching = {} THEN None ELSE Some(elems[Min(matching)])

\* assert_eq comparing numbers by value: 1.0 equals 1.
WithoutZeroFraction(text) ==
    IF Len(text) > 2 /\ SubSeq(text, Len(text) - 1, Len(text)) = <<".", "0">>
    THEN SubSeq(text, 1, Len(text) - 2)
    ELSE text

assert_eq_numeric(left, right) ==
    IF WithoutZeroFraction(left) = WithoutZeroFraction(right) THEN Ok
    ELSE Panics("assertion left == right failed")

\* assert_eq!(structure.span().as_str(), value.span().as_str())
assert_eq(left, right) ==
    IF left = right THEN Ok ELSE Panics("assertion left == right failed")

RECURSIVE visit_value(_, _), visit_object(_, _), visit_array(_, _)
RECURSIVE visit_object_from(_, _, _), visit_array_from(_, _, _)

\* visit_object taking, for each structure key, the last pair of the value
\* with that key instead of the first.
visit_object_last_match(structure, value) ==
    LET Reversed == [i \in 1..Len(value.elems) |->
                        value.elems[Len(value.elems) + 1 - i]]
    IN  visit_object_from(structure, [value EXCEPT !.elems = Reversed], 1)

\* visit_value without the arm for a Redacted structure.
visit_value_no_wildcard(structure, value) ==
    CASE structure.kind = "Null" /\ value.kind = "Null" -> Ok
      [] structure.kind \in {"Bool", "Number", "String"}
         /\ value.kind = structure.kind -> assert_eq(structure.text, value.text)
      [] structure.kind = "Array" /\ value.kind = "Array" ->
            visit_array(structure, value)
      [] structure.kind = "Object" /\ value.kind = "Object" ->
            visit_object(structure, value)
      [] OTHER -> Panics("Type mismatch")

\* visit_value with an arm that lets a Redacted value through, as the arm
\* for a Redacted structure does.
visit_value_redacted_value(structure, value) ==
    CASE structure.kind = "Null" /\ value.kind = "Null" -> Ok
      [] structure.kind = "Redacted" -> Ok
      [] value.kind = "Redacted" -> Ok
      [] structure.kind \in {"Bool", "Number", "String"}
         /\ value.kind = structure.kind -> assert_eq(structure.text, value.text)
      [] structure.kind = "Array" /\ value.kind = "Array" ->
            visit_array(structure, value)
      [] structure.kind = "Object" /\ value.kind = "Object" ->
            visit_object(structure, value)
      [] OTHER -> Panics("Type mismatch")

\* lines 53-69
visit_value(structure, value) ==
    CASE structure.kind = "Null" /\ value.kind = "Null" -> Ok
      [] structure.kind = "Redacted" -> Ok
      [] structure.kind = "Bool" /\ value.kind = "Bool" ->
            assert_eq(structure.text, value.text)
      [] structure.kind = "Number" /\ value.kind = "Number" ->
            assert_eq(structure.text, value.text)
      [] structure.kind = "String" /\ value.kind = "String" ->
            assert_eq(structure.text, value.text)
      [] structure.kind = "Array" /\ value.kind = "Array" ->
            visit_array(structure, value)
      [] structure.kind = "Object" /\ value.kind = "Object" ->
            visit_object(structure, value)
      [] OTHER -> Panics("Type mismatch")

\* lines 73-78: the loop of visit_object from the i-th structure pair on
visit_object_from(structure, value, i) ==
    IF i > Len(structure.elems) THEN Ok
    ELSE LET elem == structure.elems[i]
             matching == find(value.elems, elem.key.text)
         IN  IF matching = None THEN Panics("Missing key")
             ELSE LET visited == visit_value(elem.value, matching[1].value)
                  IN  IF visited.status # "Ok" THEN visited
                      ELSE visit_object_from(structure, value, i + 1)

\* lines 87-89: the loop of visit_array from the i-th structure element on;
\* value.elems[i] panics when the value has no i-th element
visit_array_from(structure, value, i) ==
    IF i > Len(structure.elems) THEN Ok
    ELSE IF i > Len(value.elems) THEN Panics("index out of bounds")
    ELSE LET visited == visit_value(structure.elems[i], value.elems[i])
         IN  IF visited.status # "Ok" THEN visited
             ELSE visit_array_from(structure, value, i + 1)

\* lines 72-79
visit_object(structure, value) == visit_object_from(structure, value, 1)

\* lines 86-90
visit_array(structure, value) == visit_array_from(structure, value, 1)

\* build wrapping the structure instead of the candidate.
JsonContextBuilder_build_structure(structure, value) ==
    LET visited == visit_value(structure, value)
    IN  IF visited.status # "Ok" THEN visited
        ELSE Returns([value |-> structure])

\* JsonContextBuilder::build, lines 43-47: Ok(JsonContext { value })
JsonContextBuilder_build(structure, value) ==
    LET visited == visit_value(structure, value)
    IN  IF visited.status # "Ok" THEN visited
        ELSE Returns([value |-> value])

-----------------------------------------------------------------------------
(* crates/context/src/json/enforce.rs: JsonContextEnforcer                 *)

RECURSIVE JsonContextEnforcer_visit_value(_, _)
RECURSIVE JsonContextEnforcer_visit_object_from(_, _, _)
RECURSIVE JsonContextEnforcer_visit_array_from(_, _, _)

\* lines 8-24
JsonContextEnforcer_visit_value(structure, value) ==
    CASE structure.kind = "Null" /\ value.kind = "Null" -> Ok
      [] structure.kind = "Redacted" -> Ok
      [] structure.kind = "Bool" /\ value.kind = "Bool" ->
            assert_eq(structure.text, value.text)
      [] structure.kind = "Number" /\ value.kind = "Number" ->
            assert_eq(structure.text, value.text)
      [] structure.kind = "String" /\ value.kind = "String" ->
            assert_eq(structure.text, value.text)
      [] structure.kind = "Array" /\ value.kind = "Array" ->
            JsonContextEnforcer_visit_array_from(structure, value, 1)
      [] structure.kind = "Object" /\ value.kind = "Object" ->
            JsonContextEnforcer_visit_object_from(structure, value, 1)
      [] OTHER -> Panics("Type mismatch")

\* lines 27-34
JsonContextEnforcer_visit_object_from(structure, value, i) ==
    IF i > Len(structure.elems) THEN Ok
    ELSE LET elem == structure.elems[i]
             matching == find(value.elems, elem.key.text)
         IN  IF matching = None THEN Panics("Missing key")
             ELSE LET visited == JsonContextEnforcer_visit_value(
                                     elem.value, matching[1].value)
                  IN  IF visited.status # "Ok" THEN visited
                      ELSE JsonContextEnforcer_visit_object_from(
                               structure, value, i + 1)

\* lines 41-45
JsonContextEnforcer_visit_array_from(structure, value, i) ==
    IF i > Len(structure.elems) THEN Ok
    ELSE IF i > Len(value.elems) THEN Panics("index out of bounds")
    ELSE LET visited == JsonContextEnforcer_visit_value(
                            structure.elems[i], value.elems[i])
         IN  IF visited.status # "Ok" THEN visited
             ELSE JsonContextEnforcer_visit_array_from(structure, value, i + 1)

-----------------------------------------------------------------------------
(* url::Url::parse("https://example.com")?.join(target)? as                *)
(* enforce_request_target uses it: the host, the path and the query of the *)
(* joined URL, for targets with the scheme http or https or none, without  *)
(* a port, dot segments or bytes that are percent-encoded.                 *)

BASE_HOST == <<"e", "x", "a", "m", "p", "l", "e", ".", "c", "o", "m">>
HTTPS == <<"h", "t", "t", "p", "s", ":", "/", "/">>
HTTP == <<"h", "t", "t", "p", ":", "/", "/">>

IsPrefix(p, t) == Len(p) <= Len(t) /\ SubSeq(t, 1, Len(p)) = p
Drop(t, n) == SubSeq(t, n + 1, Len(t))

\* The first position of t holding one of the bytes cs, or Len(t) + 1.
FirstOf(t, cs) ==
    Min({i \in 1..Len(t) : t[i] \in cs} \cup {Len(t) + 1})

\* path and query of "path?query"; an empty path is "/"
PathAndQuery(t) ==
    LET q == FirstOf(t, {"?"})
        path == SubSeq(t, 1, q - 1)
    IN  [path |-> IF path = <<>> THEN <<"/">> ELSE path,
         query |-> IF q > Len(t) THEN None ELSE Some(Drop(t, q))]

\* The last position of t holding one of the bytes cs, or 0.
LastOf(t, cs) == Max({i \in 1..Len(t) : t[i] \in cs} \cup {0})

\* The target up to its fragment.
WithoutFragment(t) == SubSeq(t, 1, FirstOf(t, {"#"}) - 1)

\* The URL of "userinfo@host/path?query".
Authority(t) ==
    LET e == FirstOf(t, {"/", "?"})
        authority == SubSeq(t, 1, e - 1)
        host == Drop(authority, LastOf(authority, {"@"}))
        rest == PathAndQuery(Drop(t, e - 1))
    IN  IF host = <<>> THEN Err("empty host")
        ELSE Returns([host |-> host, path |-> rest.path, query |-> rest.query])

\* base.join(target): an absolute target replaces the base, a target that
\* begins with "//" replaces its authority, any other one its path.
JoinBase(t) ==
    IF IsPrefix(HTTPS, t) THEN Authority(Drop(t, Len(HTTPS)))
    ELSE IF IsPrefix(HTTP, t) THEN Authority(Drop(t, Len(HTTP)))
    ELSE IF IsPrefix(<<"/", "/">>, t) THEN Authority(Drop(t, 2))
    ELSE IF IsPrefix(<<"/">>, t)
    THEN LET rest == PathAndQuery(t)
         IN  Returns([host |-> BASE_HOST, path |-> rest.path,
                      query |-> rest.query])
    ELSE LET rest == PathAndQuery(<<"/">> \o t)
         IN  Returns([host |-> BASE_HOST, path |-> rest.path,
                      query |-> rest.query])

Url_join(target) == JoinBase(WithoutFragment(target))

\* format!("{}?{}", url.path(), query) or url.path()
path_and_query(url) ==
    IF url.query # None THEN url.path \o <<"?">> \o url.query[1] ELSE url.path

-----------------------------------------------------------------------------
(* crates/context/src/json/context.rs: JsonSerializationVisitor            *)
(* A serde_json::Value is its variant (kind), the text of a string, the    *)
(* number of a number, the elements of an array and the map of an object.  *)

NoNumber == [repr |-> "none", negative |-> FALSE, digits |-> <<>>]

SerdeValue(kind, text, number, elems, map) ==
    [kind |-> kind, text |-> text, number |-> number, elems |-> elems,
     map |-> map]

SerdeNull == SerdeValue("Null", <<>>, NoNumber, <<>>, <<>>)
SerdeBool(b) ==
    SerdeValue("Bool", IF b THEN <<"t","r","u","e">> ELSE <<"f","a","l","s","e">>,
               NoNumber, <<>>, <<>>)
SerdeString(text) == SerdeValue("String", text, NoNumber, <<>>, <<>>)
SerdeNumber(number) == SerdeValue("Number", <<>>, number, <<>>, <<>>)
SerdeArray(values) == SerdeValue("Array", <<>>, NoNumber, values, <<>>)
SerdeObject(map) == SerdeValue("Object", <<>>, NoNumber, <<>>, map)

REDACTED_STRING ==
    <<"_", "_", "R", "E", "D", "A", "C", "T", "E", "D", "_", "_">>

\* i64::MAX, and the magnitude of i64::MIN
I64_MAX == <<"9","2","2","3","3","7","2","0","3","6","8","5","4","7","7","5","8","0","7">>
I64_MIN == <<"9","2","2","3","3","7","2","0","3","6","8","5","4","7","7","5","8","0","8">>

AllDigits(t) == \A i \in 1..Len(t) : t[i] \in Range(DecimalDigits)

DigitOf(c) == (CHOOSE i \in 1..10 : DecimalDigits[i] = c) - 1

\* The digits without their leading zeros.
StripZeros(digits) ==
    LET nonzero == {i \in 1..Len(digits) : digits[i] # "0"}
    IN  IF nonzero = {} THEN <<"0">>
        ELSE SubSeq(digits, Min(nonzero), Len(digits))

\* The number a is greater than the number b, both without leading zeros.
Exceeds(a, b) ==
    \/ Len(a) > Len(b)
    \/ /\ Len(a) = Len(b)
       /\ \E i \in 1..Len(a) :
             /\ DigitOf(a[i]) > DigitOf(b[i])
             /\ \A j \in 1..(i - 1) : a[j] = b[j]

HasSign(text) == text # <<>> /\ text[1] \in {"+", "-"}
Unsigned(text) == IF HasSign(text) THEN Tail(text) ELSE text

\* str::parse::<i64>: a sign or none, then digits, within the range of i64
parse_i64(text) ==
    LET digits == Unsigned(text)
        negative == HasSign(text) /\ text[1] = "-"
        magnitude == StripZeros(digits)
    IN  IF digits = <<>> \/ ~AllDigits(digits) THEN None
        ELSE IF Exceeds(magnitude, IF negative THEN I64_MIN ELSE I64_MAX)
        THEN None
        ELSE Some([repr |-> "i64",
                   negative |-> negative /\ magnitude # <<"0">>,
                   digits |-> magnitude])

\* The value of a short sequence of digits.
RECURSIVE to_natural(_)
to_natural(digits) ==
    IF digits = <<>> THEN 0
    ELSE 10 * to_natural(SubSeq(digits, 1, Len(digits) - 1))
         + DigitOf(digits[Len(digits)])

\* str::parse::<f64>: a sign or none, then inf, infinity, nan, or digits
\* with a '.' or none and an exponent or none.  The number parsed is kept
\* as its text; it is finite when its decimal magnitude is below that of
\* f64::MAX (1.8e308).
parse_f64(text) ==
    LET body == Unsigned(text)
        e == FirstOf(body, {"e", "E"})
        mantissa == SubSeq(body, 1, e - 1)
        exponent == Unsigned(Drop(body, e))
        dot == FirstOf(mantissa, {"."})
        int == SubSeq(mantissa, 1, dot - 1)
        frac == Drop(mantissa, dot)
        shift == IF e > Len(body) THEN 0
                 ELSE IF Len(StripZeros(exponent)) > 3 THEN 1000
                 ELSE to_natural(exponent)
        up == ~(HasSign(Drop(body, e)) /\ Drop(body, e)[1] = "-")
    IN  IF to_lowercase(body) \in {<<"i","n","f">>, <<"n","a","n">>,
                                   <<"i","n","f","i","n","i","t","y">>}
        THEN Some([repr |-> "f64", finite |-> FALSE, text |-> text])
        ELSE IF /\ AllDigits(int) /\ AllDigits(frac)
                /\ (int # <<>> \/ frac # <<>>)
                /\ (e > Len(body) \/ (exponent # <<>> /\ AllDigits(exponent)))
        THEN Some([repr |-> "f64",
                   finite |-> ~(up /\ shift + Len(StripZeros(int)) > 308),
                   text |-> text])
        ELSE None

\* serde_json::Number::from_f64(f).unwrap_or(serde_json::Number::from(0))
Number_from_f64(f) ==
    IF f.finite THEN [repr |-> "f64", negative |-> FALSE, digits |-> f.text]
    ELSE [repr |-> "i64", negative |-> FALSE, digits |-> <<"0">>]

\* lines 107-114 with the branches tried one after the other: the integer
\* parse, then the float parse, then the raw text.
visit_number_integer_then_float(num_str) ==
    IF parse_i64(num_str) # None THEN SerdeNumber(parse_i64(num_str)[1])
    ELSE IF parse_f64(num_str) # None
    THEN SerdeNumber(Number_from_f64(parse_f64(num_str)[1]))
    ELSE SerdeString(num_str)

\* lines 107-114
visit_number(num_str) ==
    IF "." \in Range(num_str)
    THEN IF parse_f64(num_str) # None
         THEN SerdeNumber(Number_from_f64(parse_f64(num_str)[1]))
         ELSE SerdeString(num_str)
    ELSE IF parse_i64(num_str) # None
         THEN SerdeNumber(parse_i64(num_str)[1])
         ELSE SerdeString(num_str)

\* line 106: b.span().as_str().parse().unwrap_or(false)
parse_bool(text) == text = <<"t", "r", "u", "e">>

RECURSIVE JsonSerializationVisitor_visit_value(_)

\* lines 122-130: map.insert(key, value) for every pair in source order, a
\* later pair replacing an earlier one with the same key
JsonSerializationVisitor_visit_object(obj) ==
    LET keys == {obj.elems[i].key.text : i \in 1..Len(obj.elems)}
        last(k) == Max({i \in 1..Len(obj.elems) : obj.elems[i].key.text = k})
    IN  SerdeObject([k \in keys |->
            JsonSerializationVisitor_visit_value(obj.elems[last(k)].value)])

\* lines 133-136
JsonSerializationVisitor_visit_array(arr) ==
    SerdeArray([i \in 1..Len(arr.elems) |->
                   JsonSerializationVisitor_visit_value(arr.elems[i])])

\* lines 102-119
JsonSerializationVisitor_visit_value(value) ==
    CASE value.kind = "Null" -> SerdeNull
      [] value.kind = "Redacted" -> SerdeString(REDACTED_STRING)
      [] value.kind = "Bool" -> SerdeBool(parse_bool(value.text))
      [] value.kind = "Number" -> visit_number(value.text)
      [] value.kind = "String" -> SerdeString(value.text)
      [] value.kind = "Array" -> JsonSerializationVisitor_visit_array(value)
      [] value.kind = "Object" -> JsonSerializationVisitor_visit_object(value)

-----------------------------------------------------------------------------
(* crates/context/src/http/context.rs: HttpContextBuilder                  *)

\* An outcome that is not Ok ends the operation (`?`, or the panic
\* unwinding); after an Ok one the operation goes on.
AndThen(outcome, rest) == IF outcome.status # "Ok" THEN outcome ELSE rest

\* line 49: Ok(BodyContext::Json(JsonContext::builder(..).build()?))
BodyContext_Json(built) ==
    AndThen(built, Returns([class |-> "Json", context |-> built.value]))

\* enforce_body taking a pair of different content classes for a pair of
\* unknown bodies that need not be compared.
enforce_body_lenient(structure_body, request_body) ==
    CASE structure_body.content.class = "Json"
         /\ request_body.content.class = "Json" ->
            BodyContext_Json(
                JsonContextBuilder_build(structure_body.content.json,
                                         request_body.content.json))
      [] structure_body.content.class = "Unknown"
         /\ request_body.content.class = "Unknown"
         /\ structure_body.content.bytes # request_body.content.bytes ->
            Panics("Body content mismatch")
      [] OTHER -> Returns([class |-> "Unknown",
                           context |-> request_body.content.bytes])

\* lines 46-61
enforce_body(structure_body, request_body) ==
    CASE structure_body.content.class = "Json"
         /\ request_body.content.class = "Json" ->
            BodyContext_Json(
                JsonContextBuilder_build(structure_body.content.json,
                                         request_body.content.json))
      [] structure_body.content.class = "Unknown"
         /\ request_body.content.class = "Unknown" ->
            IF structure_body.content.bytes # request_body.content.bytes
            THEN Panics("Body content mismatch")
            ELSE Returns([class |-> "Unknown",
                          context |-> request_body.content.bytes])
      [] OTHER -> Err("Body type mismatch")

\* The comparison of the joined URLs with the hosts compared whatever the
\* structure target begins with.
compare_urls_host_always(structure_target, structure_url, request_url) ==
    IF structure_url.status # "Ok" THEN structure_url
    ELSE IF request_url.status # "Ok" THEN request_url
    ELSE IF path_and_query(request_url.value)
              # path_and_query(structure_url.value)
            \/ request_url.value.host # structure_url.value.host
    THEN Panics("Request target mismatch")
    ELSE Ok

\* lines 76-93: the comparison of the two joined URLs
compare_urls(structure_target, structure_url, request_url) ==
    AndThen(structure_url,
      AndThen(request_url,
        IF path_and_query(request_url.value)
              # path_and_query(structure_url.value)
        THEN Panics("Request target mismatch")
        ELSE IF ~IsPrefix(<<"/">>, structure_target)
                /\ request_url.value.host # structure_url.value.host
        THEN Panics("Request target mismatch")
        ELSE Ok))

\* lines 67-94
enforce_request_target(request, structure_request) ==
    compare_urls(structure_request.request.target.text,
                 Url_join(structure_request.request.target.text),
                 Url_join(request.request.target.text))

\* The structure headers without the filter on content-length.
structure_headers_unfiltered(structure_message) == structure_message.headers

\* lines 116-117, 160-161: the structure headers but content-length
structure_headers(structure_message) ==
    LET Kept(h) == to_lowercase(h.name.text) # N_content_length
    IN  SelectSeq(structure_message.headers, Kept)

\* line 125, 169: structure_header.value.as_bytes().iter().any(|&b| b != b'*')
any_not_sentinel(bytes) == \E i \in 1..Len(bytes) : bytes[i] # SENTINEL

\* The loop over the structure headers pushing the candidate's header also
\* when the structure value is a wildcard.
RECURSIVE enforce_headers_push_all(_, _, _)
enforce_headers_push_all(hs, message, context_headers) ==
    IF hs = <<>> THEN Returns(context_headers)
    ELSE LET structure_header == Head(hs)
             found == headers_with_name(message, structure_header.name.text)
         IN  IF found = <<>> THEN Err("Missing required header")
             ELSE IF any_not_sentinel(structure_header.value.text)
                     /\ found[1].value.text # structure_header.value.text
             THEN Panics("Header value mismatch")
             ELSE enforce_headers_push_all(
                      Tail(hs), message,
                      Append(context_headers,
                             <<found[1].name.text, found[1].value.text>>))

\* lines 119-135, 163-178: the loop over the structure headers hs, the
\* context headers pushed so far being context_headers
RECURSIVE enforce_headers(_, _, _)
enforce_headers(hs, message, context_headers) ==
    IF hs = <<>> THEN Returns(context_headers)
    ELSE LET structure_header == Head(hs)
             found == headers_with_name(message, structure_header.name.text)
         IN  IF found = <<>> THEN Err("Missing required header")
             ELSE LET header == found[1]
                  IN  IF any_not_sentinel(structure_header.value.text)
                      THEN IF header.value.text # structure_header.value.text
                           THEN Panics("Header value mismatch")
                           ELSE enforce_headers(
                                    Tail(hs), message,
                                    Append(context_headers,
                                           <<header.name.text,
                                             header.value.text>>))
                      ELSE enforce_headers(Tail(hs), message, context_headers)

\* lines 139, 182: Some(self.enforce_body(structure_body, body)?)
Some_body(enforced) == AndThen(enforced, Returns(Some(enforced.value)))

\* The body of the candidate emitted when the structure declares none.
enforce_optional_body_of_candidate(structure_message, message, missing) ==
    IF structure_message.body # None
    THEN IF message.body # None
         THEN Some_body(enforce_body(structure_message.body[1],
                                     message.body[1]))
         ELSE Err(missing)
    ELSE IF message.body # None
         THEN Returns(Some([class |-> "Unknown",
                            context |-> message.body[1].content.bytes]))
         ELSE Returns(None)

\* lines 137-145, 180-188
enforce_optional_body(structure_message, message, missing) ==
    IF structure_message.body # None
    THEN IF message.body # None
         THEN Some_body(enforce_body(structure_message.body[1],
                                     message.body[1]))
         ELSE Err(missing)
    ELSE Returns(None)

\* lines 147-152: the RequestContext pushed when nothing has failed
RequestContext(request, target, headers, body) ==
    AndThen(target,
      AndThen(headers,
        AndThen(body,
          Returns([target |-> request.request.target.text,
                   method |-> request.request.method.text,
                   headers |-> headers.value,
                   body |-> body.value]))))

\* The iteration over a request with the headers enforced before the
\* method is compared.
enforce_request_headers_first(structure_request, request) ==
    AndThen(
        enforce_headers(structure_headers(structure_request), request, <<>>),
        IF request.request.method.text # structure_request.request.method.text
        THEN Panics("Request method mismatch")
        ELSE RequestContext(
                 request,
                 enforce_request_target(request, structure_request),
                 enforce_headers(structure_headers(structure_request), request,
                                 <<>>),
                 enforce_optional_body(structure_request, request,
                                       "Request body missing")))

\* lines 110-152: one iteration of the loop over the requests
enforce_request(structure_request, request) ==
    IF request.request.method.text # structure_request.request.method.text
    THEN Panics("Request method mismatch")
    ELSE RequestContext(
             request,
             enforce_request_target(request, structure_request),
             enforce_headers(structure_headers(structure_request), request, <<>>),
             enforce_optional_body(structure_request, request,
                                   "Request body missing"))

\* lines 190-194: the ResponseContext pushed when nothing has failed
ResponseContext(response, headers, body) ==
    AndThen(headers,
      AndThen(body,
        Returns([status |-> response.status.code.text,
                 headers |-> headers.value,
                 body |-> body.value])))

\* lines 156-194: one iteration of the loop over the responses
enforce_response(structure_response, response) ==
    IF response.status.code.text # structure_response.status.code.text
    THEN Panics("Response status mismatch")
    ELSE ResponseContext(
             response,
             enforce_headers(structure_headers(structure_response), response, <<>>),
             enforce_optional_body(structure_response, response,
                                   "Response body missing"))

\* The loops over the zipped messages: the first outcome that is not Ok, or
\* the contexts in order.
RECURSIVE enforce_requests(_, _, _), enforce_responses(_, _, _)

\* The loop going on to the next request after a request that failed,
\* without a context for it.
push_request_skip_failed(structures, requests, request_contexts, enforced) ==
    IF enforced.status # "Ok"
    THEN enforce_requests(Tail(structures), Tail(requests), request_contexts)
    ELSE enforce_requests(Tail(structures), Tail(requests),
                          Append(request_contexts, enforced.value))

\* line 147: request_contexts.push(..), and the next request
push_request(structures, requests, request_contexts, enforced) ==
    AndThen(enforced,
            enforce_requests(Tail(structures), Tail(requests),
                             Append(request_contexts, enforced.value)))

\* line 190: response_contexts.push(..), and the next response
push_response(structures, responses, response_contexts, enforced) ==
    AndThen(enforced,
            enforce_responses(Tail(structures), Tail(responses),
                              Append(response_contexts, enforced.value)))

\* lines 109-153
enforce_requests(structures, requests, request_contexts) ==
    IF structures = <<>> \/ requests = <<>> THEN Returns(request_contexts)
    ELSE push_request(structures, requests, request_contexts,
                      enforce_request(Head(structures), Head(requests)))

\* lines 155-195
enforce_responses(structures, responses, response_contexts) ==
    IF structures = <<>> \/ responses = <<>> THEN Returns(response_contexts)
    ELSE push_response(structures, responses, response_contexts,
                       enforce_response(Head(structures), Head(responses)))

\* lines 197-200: Ok(HttpContext { requests, responses })
HttpContext(requests, responses) ==
    AndThen(requests,
      AndThen(responses,
        Returns([requests |-> requests.value,
                 responses |-> responses.value])))

\* enforce_structure without the two assertions on the counts: zip stops at
\* the shorter of the two sequences.
enforce_structure_unchecked_counts(structure, transcript) ==
    HttpContext(
        enforce_requests(structure.requests, transcript.requests, <<>>),
        enforce_responses(structure.responses, transcript.responses, <<>>))

\* lines 102-201
enforce_structure(structure, transcript) ==
    IF Len(transcript.requests) # Len(structure.requests)
    THEN Panics("Request count mismatch")
    ELSE IF Len(transcript.responses) # Len(structure.responses)
    THEN Panics("Response count mismatch")
    ELSE HttpContext(
             enforce_requests(structure.requests, transcript.requests, <<>>),
             enforce_responses(structure.responses, transcript.responses, <<>>))

-----------------------------------------------------------------------------
(* The transcripts and JSON values the planner is run on *)

M_GET == <<"G", "E", "T">>
T_a == <<"/", "a">>
C_200 == <<"2", "0", "0">>

HeaderPool ==
    {HeaderOf(<<"H", "o", "s", "t">>, <<"a", ".", "i", "o">>),
     HeaderOf(<<"H", "O", "S", "T">>, <<"b", ".", "i", "o">>),
     HeaderOf(<<"X", "-", "I", "d">>, <<"7">>)}

\* The lists of at most n headers.
HeaderLists(n) == UNION {[1..k -> HeaderPool] : k \in 0..n}

TrailerOf == HeaderOf(<<"X", "-", "T">>, <<"9">>)

\* {"a":[1,2]}
ScenarioJson == Obj(<<Pair(<<"a">>, Arr(<<JNum1, JNum2>>))>>)

HttpLeaves == {JNum1, JStrX, JTrue}
JsonLeaves == {JNull, JTrue, JNum1, JStrX, JRedacted}

SimpleBodies ==
    {NoBody, UnknownBody(<<"h", "i">>), JsonBody(ScenarioJson)}

ChunkedBodies == {ChunkedBody(<<"h", "i">>, <<TrailerOf>>)}

\* The JSON bodies of at most n nodes.
JsonBodies(n) == {JsonBody(j) : j \in TreesUpTo(n, HttpLeaves)}

RequestsIn(headerLists, bodies) ==
    {RequestOf(M_GET, T_a, hs, b) : hs \in headerLists, b \in bodies}

ResponsesIn(headerLists, bodies) ==
    {ResponseOf(C_200, hs, b) : hs \in headerLists, b \in bodies}

\* Messages of multi-message transcripts.
SmallRequests == RequestsIn({<<>>}, {NoBody, JsonBody(ScenarioJson)})
SmallResponses ==
    ResponsesIn({<<>>}, {UnknownBody(<<"h", "i">>)} \cup ChunkedBodies)

SeqsUpTo(S, n) == UNION {[1..k -> S] : k \in 0..n}

Exchange(reqs, resps) == [requests |-> reqs, responses |-> resps]

\* One message with every list of at most h headers, one message with every
\* JSON body of at most n nodes, and every sequence of at most k small
\* messages in both directions.
Transcripts(h, n, k) ==
    {Exchange(<<m>>, <<>>) :
        m \in RequestsIn(HeaderLists(h), SimpleBodies)
              \cup RequestsIn({<<>>}, JsonBodies(n))}
    \cup {Exchange(<<>>, <<m>>) :
        m \in ResponsesIn(HeaderLists(h), SimpleBodies \cup ChunkedBodies)
              \cup ResponsesIn({<<>>}, JsonBodies(n))}
    \cup {Exchange(rs, ps) : rs \in SeqsUpTo(SmallRequests, k),
                             ps \in SeqsUpTo(SmallResponses, k)}

\* Where and how a JSON value given to commit_structure lies in its buffer:
\* compact at the start of the sent bytes, or with a blank after every ','
\* and ':' further into the received bytes.
Placements ==
    {[off |-> 0, sp |-> <<>>, direction |-> "Sent"],
     [off |-> 3, sp |-> <<" ">>, direction |-> "Received"]}

NoTranscript == [requests |-> <<>>, responses |-> <<>>]

\* The errors TranscriptCommitmentBuilder::commit returns.
BuilderErrors == {"Index: unknown range", "Index: duplicate range"}

-----------------------------------------------------------------------------
(* The reveal planner as a state machine: one step per builder.commit call *)

InitReveal ==
    /\ op = "reveal_structure"
    /\ \E t \in Transcripts(MaxHeaders, MaxNodes, MaxMessages) :
          /\ input = [transcript |-> HttpTranscript(t.requests, t.responses),
                      json |-> JNull, direction |-> "Sent"]
          /\ calls = reveal_structure(input.transcript)
    /\ trace = <<>>
    /\ result = Running

InitCommit ==
    /\ op = "commit_structure"
    /\ \E j \in TreesUpTo(MaxNodes, JsonLeaves), p \in Placements :
          /\ input = [transcript |-> NoTranscript,
                      json |-> Place(j, p.off, p.sp), direction |-> p.direction]
          /\ calls = TagAll(commit_structure(p.direction, input.json), "body", 1)
    /\ trace = <<>>
    /\ result = Running

Init == InitReveal \/ InitCommit

Received(call, ret) ==
    [what |-> call.what, ranges |-> call.ranges, direction |-> call.direction,
     part |-> call.part, msg |-> call.msg, ret |-> ret]

\* builder.commit(..)? returns Ok: the traversal goes on
CommitOk ==
    /\ result = Running
    /\ Len(trace) < Len(calls)
    /\ trace' = Append(trace, Received(calls[Len(trace) + 1], "Ok"))
    /\ UNCHANGED <<op, input, calls, result>>

\* The error of a commit call dropped instead of returned with `?`.
CommitErr_dropped ==
    /\ result = Running
    /\ Len(trace) < Len(calls)
    /\ \E e \in BuilderErrors :
          trace' = Append(trace, Received(calls[Len(trace) + 1], e))
    /\ UNCHANGED <<op, input, calls, result>>

\* builder.commit(..)? returns Err(e): the operation returns Err(e)
CommitErr ==
    /\ result = Running
    /\ Len(trace) < Len(calls)
    /\ \E e \in BuilderErrors :
          /\ trace' = Append(trace, Received(calls[Len(trace) + 1], e))
          /\ result' = Err(e)
    /\ UNCHANGED <<op, input, calls>>

\* the traversal is over: Ok(())
ReturnOk ==
    /\ result = Running
    /\ Len(trace) = Len(calls)
    /\ result' = Ok
    /\ UNCHANGED <<op, input, calls, trace>>

Next == CommitOk \/ CommitErr \/ ReturnOk

Spec == Init /\ [][Next]_vars

-----------------------------------------------------------------------------
(* commit_value as a state machine: one step per builder.commit call *)

CommitLeaves == {JNull, JTrue, JNum1, JStrX, JStrEmpty, JRedacted}

\* The JSON values of at most n nodes given to commit_value.
CommitValues(n) == TreesUpTo(n, CommitLeaves)

\* The value lies in its buffer as Placements say; source is the text that
\* was parsed and where it begins.
InitCommitValue ==
    /\ op = "commit_value"
    /\ \E j \in CommitValues(MaxNodes), p \in Placements :
          /\ input = [transcript |-> NoTranscript,
                      json |-> Place(j, p.off, p.sp), direction |-> p.direction,
                      source |-> [off |-> p.off, bytes |-> Render(j, p.sp)]]
          /\ calls = TagAll(commit_value(input.json, p.direction).calls,
                            "body", 1)
    /\ trace = <<>>
    /\ result = Running

\* builder.commit(..).map_err(|e| JsonCommitError::new_with_source(msg, e))?
\* on a call that returns Err(e)
CommitValueErr ==
    /\ result = Running
    /\ Len(trace) < Len(calls)
    /\ \E e \in BuilderErrors :
          /\ trace' = Append(trace, Received(calls[Len(trace) + 1], e))
          /\ result' = JsonCommitError(
                           FailureMessage(calls[Len(trace) + 1].what), Some(e))
    /\ UNCHANGED <<op, input, calls>>

\* the traversal is over: Ok(())
CommitValueOk ==
    /\ result = Running
    /\ Len(trace) = Len(calls)
    /\ commit_value(input.json, input.direction).outcome = OkResult
    /\ result' = Ok
    /\ UNCHANGED <<op, input, calls, trace>>

\* the traversal has come to a Redacted node: Err(JsonCommitError)
CommitValueRedacted ==
    /\ result = Running
    /\ Len(trace) = Len(calls)
    /\ commit_value(input.json, input.direction).outcome # OkResult
    /\ result' = commit_value(input.json, input.direction).outcome
    /\ UNCHANGED <<op, input, calls, trace>>

NextCommitValue ==
    CommitOk \/ CommitValueErr \/ CommitValueOk \/ CommitValueRedacted

SpecCommitValue == InitCommitValue /\ [][NextCommitValue]_vars

-----------------------------------------------------------------------------
(* What the builder has been asked to commit *)

Revealing == op = "reveal_structure"
Committing == op = "commit_structure"

\* The positions committed in a direction.
Committed(direction) ==
    UNION {trace[i].ranges : i \in {k \in 1..Len(trace) :
                                        trace[k].direction = direction}}

\* No position is handed to the builder twice for one direction.
PairwiseDisjoint ==
    \A i, j \in 1..Len(trace) :
        (i < j /\ trace[i].direction = trace[j].direction)
            => trace[i].ranges \cap trace[j].ranges = {}

IsFraming(header) == to_lowercase(header.name.text) \in Range(FRAMING_HEADERS)

\* The messages of the transcript under reveal, each with its direction.
MessagesOf(transcript) ==
    {[message |-> transcript.requests[i], direction |-> "Sent"] :
        i \in 1..Len(transcript.requests)}
    \cup {[message |-> transcript.responses[i], direction |-> "Received"] :
        i \in 1..Len(transcript.responses)}

HasJsonBody(message) ==
    message.body # None /\ message.body[1].content.class = "Json"

\* The positions inside the String, Number and Bool leaves of a value.
RECURSIVE LeafData(_)
LeafData(json) ==
    CASE json.kind \in {"String", "Number", "Bool"} -> json.span
      [] json.kind = "Array" ->
            UNION {LeafData(json.elems[i]) : i \in 1..Len(json.elems)}
      [] json.kind = "Object" ->
            UNION {LeafData(json.elems[i].value) : i \in 1..Len(json.elems)}
      [] OTHER -> {}

\* The data of a message: the values of its headers that are not
\* framing-critical and the literals of its JSON body.
DataBytes(message) ==
    UNION {message.headers[i].value.span :
              i \in {k \in 1..Len(message.headers) :
                        ~IsFraming(message.headers[k])}}
    \cup (IF HasJsonBody(message)
          THEN LeafData(message.body[1].content.json) ELSE {})

\* The delimiters, keys and separators of a value: without_pairs() of every
\* object, without_value() of every pair, without_values() and separators()
\* of every array.
RECURSIVE StructuralBytes(_)
StructuralBytes(json) ==
    CASE json.kind = "Object" ->
            Object_without_pairs(json)
            \cup UNION {KeyValue_without_value(json.elems[i])
                        \cup StructuralBytes(json.elems[i].value) :
                            i \in 1..Len(json.elems)}
      [] json.kind = "Array" ->
            Array_without_values(json) \cup Array_separators(json)
            \cup UNION {StructuralBytes(json.elems[i]) : i \in 1..Len(json.elems)}
      [] OTHER -> {}

-----------------------------------------------------------------------------
(* C1: within one reveal_structure call no (position, direction) pair is   *)
(* committed by more than one commit call.                                 *)
C1_NoDoubleCommit == Revealing => PairwiseDisjoint

(* C2: after reveal_structure succeeds, every header named host,           *)
(* content-length, content-type or transfer-encoding (in any letter case), *)
(* every occurrence of it, has its whole name+value range committed in the *)
(* direction of its message.                                               *)
C2_FramingHeadersCommittedWhole ==
    (Revealing /\ result = Ok) =>
        \A m \in MessagesOf(input.transcript) :
            \A i \in 1..Len(m.message.headers) :
                IsFraming(m.message.headers[i])
                    => m.message.headers[i].span \subseteq Committed(m.direction)

(* C3: reveal_structure never commits a data byte: no position of the      *)
(* value of a header that is not framing-critical, and no position inside  *)
(* a String, Number or Bool leaf of a JSON body, is in a committed range.  *)
C3_NoDataByteCommitted ==
    Revealing =>
        \A m \in MessagesOf(input.transcript) :
            Committed(m.direction) \cap DataBytes(m.message) = {}

C3_Witness ==
    /\ Revealing
    /\ result = Ok
    /\ \E m \in MessagesOf(input.transcript) :
          /\ HasJsonBody(m.message)
          /\ \E i \in 1..Len(m.message.headers) :
                ~IsFraming(m.message.headers[i])
          /\ \E leaf \in Range(m.message.body[1].content.json.elems) :
                leaf.value.kind = "Array" /\ LeafData(leaf.value) # {}
          /\ DataBytes(m.message) \cap Committed(m.direction) = {}

\* {"a":[1,2]} after Content-Type: application/json
ScenarioTranscript ==
    HttpTranscript(<<>>, <<ResponseOf(C_200, <<>>, JsonBody(ScenarioJson))>>)

\* HTTP/1.1 200 OK\r\n                    0..16
\* Content-Type: application/json\r\n    17..48
\* Content-Length: 11\r\n                49..68
\* \r\n                                  69..70
\* {"a":[1,2]}                           71..81
ScenarioCommitted ==
    (0..70) \cup {71, 81} \cup (72..75) \cup {76, 80} \cup {78}

(* C4: for a response with a JSON body, the positions committed in         *)
(* direction Received are exactly without_data() of the response, the      *)
(* whole of each framing-critical header, and the braces, key-and-colon    *)
(* ranges, brackets and separators of the body; for the body {"a":[1,2]}   *)
(* with Content-Type: application/json this is the listed set.             *)
C4_ReceivedCommitIsStructure ==
    (Revealing /\ result = Ok) =>
        /\ \A i \in 1..Len(input.transcript.responses) :
              LET response == input.transcript.responses[i]
              IN  HasJsonBody(response) =>
                    Committed("Received") \cap response.span
                      = Message_without_data(response)
                        \cup UNION {response.headers[k].span :
                                      k \in {n \in 1..Len(response.headers) :
                                                IsFraming(response.headers[n])}}
                        \cup StructuralBytes(response.body[1].content.json)
        /\ input.transcript = ScenarioTranscript
              => Committed("Received") = ScenarioCommitted

C4_Witness ==
    /\ Revealing
    /\ result = Ok
    /\ input.transcript = ScenarioTranscript
    /\ Len(trace) = 7
    /\ Committed("Received") = ScenarioCommitted

\* Where a part of a message stands in the order of the claim ...
ClaimedRank(part) ==
    CASE part = "envelope" -> 1
      [] part = "target" -> 2
      [] part \in {"headers", "boundaries", "trailers"} -> 3
      [] part = "body" -> 4

\* ... and in the order of the loops of reveal_structure.
LoopRank(part) ==
    CASE part = "envelope" -> 1
      [] part = "target" -> 2
      [] part = "headers" -> 3
      [] part = "body" -> 4
      [] part = "boundaries" -> 5
      [] part = "trailers" -> 6

\* Requests before responses, message after message, part after part.
MessageOrder(Rank(_)) ==
    \A i, j \in 1..Len(trace) :
        i < j =>
            /\ ~(trace[i].direction = "Received" /\ trace[j].direction = "Sent")
            /\ trace[i].msg <= trace[j].msg
            /\ trace[i].msg = trace[j].msg
                  => Rank(trace[i].part) <= Rank(trace[j].part)

\* The commits of a JSON body open its nodes in source order (an object's
\* braces, each pair's key, an array's brackets), and the separators of an
\* array follow its brackets at once.
Opens(call) ==
    /\ call.part = "body"
    /\ call.what \in {"without_pairs", "without_value", "without_values"}

JsonOrder ==
    /\ \A i, j \in 1..Len(trace) :
          (i < j /\ trace[i].msg = trace[j].msg /\ Opens(trace[i]) /\ Opens(trace[j]))
              => Min(trace[i].ranges) < Min(trace[j].ranges)
    /\ \A i \in 1..Len(trace) :
          trace[i].what = "separators" =>
              /\ i > 1
              /\ trace[i - 1].what = "without_values"
              /\ trace[i].ranges
                    \subseteq Min(trace[i - 1].ranges)..Max(trace[i - 1].ranges)

C6_ErrorEndsTraversal ==
    /\ Len(trace) <= Len(calls)
    /\ \A i \in 1..Len(trace) :
          /\ trace[i] = Received(calls[i], trace[i].ret)
          /\ i < Len(trace) => trace[i].ret = "Ok"
    /\ result.status = "Err"
          <=> (trace # <<>> /\ trace[Len(trace)].ret # "Ok")
    /\ result.status = "Err" => result.error = trace[Len(trace)].ret

C6_Witness ==
    /\ Revealing
    /\ result.status = "Err"
    /\ Len(trace) >= 3
    /\ Len(trace) < Len(calls)
    /\ trace[Len(trace)].part = "body"

(* C7: commit_structure never passes the same position to builder.commit   *)
(* twice for the given direction, and makes no commit call when the value  *)
(* is a primitive (Null, Bool, Number, String or Redacted).                *)
C7_CommitStructureDisjoint ==
    Committing =>
        /\ PairwiseDisjoint
        /\ input.json.kind \in Primitives => (calls = <<>> /\ trace = <<>>)

C7_Witness ==
    /\ Committing
    /\ result = Ok
    /\ input.json.kind = "Object"
    /\ Len(trace) >= 4
    /\ \E i \in 1..Len(trace) :
          trace[i].what = "separators" /\ trace[i].ranges # {}

-----------------------------------------------------------------------------
(* The structures and candidates the context builders are run on *)

MaxStructureNodes == 2

MaxValueNodes == 3

\* Every tree of exactly n nodes, and every sequence of trees of n nodes in
\* total, over the leaves L with the keys of objects drawn from K: a key
\* may occur more than once in an object.
RECURSIVE TreeK(_, _, _), ForestK(_, _, _)
TreeK(n, L, K) ==
    IF n = 1 THEN L \cup {Arr(<<>>), Obj(<<>>)}
    ELSE {Arr(f) : f \in ForestK(n - 1, L, K)}
         \cup UNION {{Obj([i \in 1..Len(f) |-> Pair(ks[i], f[i])])
                        : ks \in [1..Len(f) -> K]}
                     : f \in ForestK(n - 1, L, K)}

ForestK(n, L, K) ==
    IF n = 0 THEN {<<>>}
    ELSE UNION {{<<t>> \o f : t \in TreeK(k, L, K), f \in ForestK(n - k, L, K)}
                : k \in 1..n}

TreesKUpTo(n, L, K) == UNION {TreeK(k, L, K) : k \in 1..n}

ContextKeys == {<<"a">>, <<"b">>}
StructureKeys == {<<"a">>}
StructureLeaves == {JNum1, JRedacted}
ValueLeaves == {JNum1, JNum2}

\* The parsed structure and the parsed candidate: the candidate lies
\* elsewhere in its buffer and is spaced differently.
JsonStructures(n) ==
    {Place(j, 0, <<>>) : j \in TreesKUpTo(n, StructureLeaves, StructureKeys)}
JsonValues(n) ==
    {Place(j, 3, <<" ">>) : j \in TreesKUpTo(n, ValueLeaves, ContextKeys)}

\* Leaves of every variant, alone or as the only child of an array or of an
\* object, on either side: literals that differ in their bytes only, and
\* Redacted nodes in the candidate.
ContextLeaves ==
    {JNull, JTrue, JFalse, JNum1, JNum10, JNum2, JNum1e5, JNumBig, JStrX,
     JStrEmpty, JRedacted}
ShallowTrees ==
    ContextLeaves \cup {Arr(<<>>), Obj(<<>>)}
    \cup {Arr(<<l>>) : l \in ContextLeaves}
    \cup {Obj(<<Pair(<<"a">>, l)>>) : l \in ContextLeaves}
ShallowStructures == {Place(j, 0, <<>>) : j \in ShallowTrees}
ShallowValues == {Place(j, 3, <<" ">>) : j \in ShallowTrees}

M_POST == <<"P", "O", "S", "T">>
C_404 == <<"4", "0", "4">>
T_a_q == <<"/", "a", "?", "q">>
T_b_io_a == <<"h", "t", "t", "p", "s", ":", "/", "/", "b", ".", "i", "o", "/", "a">>
T_c_io_a == <<"h", "t", "t", "p", "s", ":", "/", "/", "c", ".", "i", "o", "/", "a">>
T_example_com_a == <<"h", "t", "t", "p", "s", ":", "/", "/", "e", "x", "a", "m", "p", "l", "e", ".", "c", "o", "m", "/", "a">>
T_relative_a == <<"a">>
T_no_host == <<"h", "t", "t", "p", "s", ":", "/", "/">>
T_http_b_io_a == <<"h", "t", "t", "p", ":", "/", "/", "b", ".", "i", "o", "/", "a">>
T_user_b_io_a == <<"h", "t", "t", "p", "s", ":", "/", "/", "u", "@", "b", ".", "i", "o", "/", "a">>
T_a_fragment == <<"/", "a", "#", "f">>

N_X_Id == <<"X", "-", "I", "d">>
N_x_id == <<"x", "-", "i", "d">>

\* Headers next to the framing headers of the body: the structure's
\* Content-Length differs from the candidate's whenever their bodies differ
\* in length.
StructureHeaderPool ==
    {HeaderOf(N_X_Id, <<"7">>), HeaderOf(N_X_Id, <<SENTINEL, SENTINEL>>),
     HeaderOf(N_X_Id, <<"7", SENTINEL>>)}
ValueHeaderPool ==
    {HeaderOf(N_X_Id, <<"7">>), HeaderOf(N_x_id, <<"8">>),
     HeaderOf(N_X_Id, <<"7", SENTINEL>>)}

StructureHeaderLists(n) == UNION {[1..k -> StructureHeaderPool] : k \in 0..n}
ValueHeaderLists(n) == UNION {[1..k -> ValueHeaderPool] : k \in 0..n}

\* {"a":**} and {"a":1}
RedactedJson == Obj(<<Pair(<<"a">>, JRedacted)>>)
PlainJson == Obj(<<Pair(<<"a">>, JNum1)>>)

StructureBodies == {NoBody, UnknownBody(<<"h", "i">>), JsonBody(RedactedJson)}
ValueBodies ==
    {NoBody, UnknownBody(<<"h", "i">>), UnknownBody(<<"h", "o">>),
     JsonBody(PlainJson), JsonBody(Arr(<<JNum1>>))}

StructureTargets ==
    {T_a, T_a_q, T_b_io_a, T_no_host, T_example_com_a, T_relative_a,
     T_user_b_io_a, T_a_fragment}
ValueTargets ==
    {T_a, T_a_q, T_b_io_a, T_c_io_a, T_example_com_a, T_relative_a, T_no_host,
     T_http_b_io_a, T_user_b_io_a, T_a_fragment}

\* A structure and a candidate of one request or one response each, with at
\* most n headers next to those of their JSON bodies.
HeaderPairs(n) ==
    {[structure |-> Exchange(<<RequestOf(M_GET, T_a, hs, JsonBody(RedactedJson))>>, <<>>),
      value |-> Exchange(<<RequestOf(M_GET, T_a, hv, JsonBody(PlainJson))>>, <<>>)]
        : hs \in StructureHeaderLists(n), hv \in ValueHeaderLists(n)}
    \cup
    {[structure |-> Exchange(<<>>, <<ResponseOf(C_200, hs, JsonBody(RedactedJson))>>),
      value |-> Exchange(<<>>, <<ResponseOf(C_200, hv, JsonBody(PlainJson))>>)]
        : hs \in StructureHeaderLists(n), hv \in ValueHeaderLists(n)}

\* A structure and a candidate of one request or one response each, that
\* differ in their method or status, in their target and in their body.
MessagePairs ==
    {[structure |-> Exchange(<<RequestOf(M_GET, ts, <<>>, bs)>>, <<>>),
      value |-> Exchange(<<RequestOf(m, tv, <<>>, bv)>>, <<>>)]
        : ts \in StructureTargets, bs \in {NoBody, JsonBody(RedactedJson)},
          m \in {M_GET, M_POST}, tv \in ValueTargets,
          bv \in {NoBody, JsonBody(PlainJson)}}
    \cup
    {[structure |-> Exchange(<<RequestOf(M_GET, T_a, <<>>, bs)>>, <<>>),
      value |-> Exchange(<<RequestOf(m, T_a, <<>>, bv)>>, <<>>)]
        : bs \in StructureBodies, m \in {M_GET, M_POST}, bv \in ValueBodies}
    \cup
    {[structure |-> Exchange(<<>>, <<ResponseOf(C_200, <<>>, bs)>>),
      value |-> Exchange(<<>>, <<ResponseOf(c, <<>>, bv)>>)]
        : bs \in StructureBodies, c \in {C_200, C_404}, bv \in ValueBodies}

\* Sequences of at most n messages on either side, that differ in number
\* and in the method of a request or the status of a response.
CountPairs(n) ==
    {[structure |-> Exchange(rs, ps), value |-> Exchange(rv, pv)]
        : rs \in SeqsUpTo({RequestOf(M_GET, T_a, <<>>, NoBody)}, n),
          ps \in SeqsUpTo({ResponseOf(C_200, <<>>, NoBody)}, n),
          rv \in SeqsUpTo({RequestOf(M_GET, T_a, <<>>, NoBody),
                           RequestOf(M_POST, T_a, <<>>, NoBody)}, n),
          pv \in SeqsUpTo({ResponseOf(C_200, <<>>, NoBody),
                           ResponseOf(C_404, <<>>, NoBody)}, n)}

N_Host == <<"H", "o", "s", "t">>
N_Accept == <<"A", "c", "c", "e", "p", "t">>

\* GET /a with Host: * against GET /a with Host: example.com, alone and
\* with a literal header in the structure and one more in the candidate.
ScenarioPairs ==
    {[structure |-> Exchange(<<RequestOf(M_GET, T_a, hs, NoBody)>>, <<>>),
      value |-> Exchange(<<RequestOf(M_GET, T_a, hv, NoBody)>>, <<>>)]
        : hs \in {<<HeaderOf(N_Host, <<SENTINEL>>)>>,
                  <<HeaderOf(N_Host, <<SENTINEL>>), HeaderOf(N_X_Id, <<"7">>)>>},
          hv \in {<<HeaderOf(N_Host, BASE_HOST)>>,
                  <<HeaderOf(N_Host, BASE_HOST), HeaderOf(N_Accept, <<"x">>),
                    HeaderOf(N_X_Id, <<"7">>)>>}}

\* POST /a with the body {"id":**,"ok":true} against POST /a with the body
\* {"id":42,"ok":true,"extra":"x"}, requests and responses.
K_id == <<"i", "d">>
K_ok == <<"o", "k">>
K_extra == <<"e", "x", "t", "r", "a">>
JNum42 == Leaf("Number", <<"4", "2">>)
PostStructureJson == Obj(<<Pair(K_id, JRedacted), Pair(K_ok, JTrue)>>)
PostCandidateJson ==
    Obj(<<Pair(K_id, JNum42), Pair(K_ok, JTrue), Pair(K_extra, JStrX)>>)

PostJsonPairs ==
    {[structure |-> Exchange(<<RequestOf(M_POST, T_a, <<>>,
                                         JsonBody(PostStructureJson))>>, <<>>),
      value |-> Exchange(<<RequestOf(M_POST, T_a, <<>>,
                                     JsonBody(PostCandidateJson))>>, <<>>)],
     [structure |-> Exchange(<<>>, <<ResponseOf(C_200, <<>>,
                                                JsonBody(PostStructureJson))>>),
      value |-> Exchange(<<>>, <<ResponseOf(C_200, <<>>,
                                            JsonBody(PostCandidateJson))>>)]}

\* Bodies of either content class on both sides, the candidate with or
\* without a Content-Type of its own: a candidate body filled with
\* sentinels is Unknown whatever its Content-Type says.
SentinelBody == UnknownBody(<<SENTINEL, SENTINEL>>)

BodyPairs ==
    {[structure |-> Exchange(<<RequestOf(M_GET, T_a, <<>>, bs)>>, <<>>),
      value |-> Exchange(<<RequestOf(M_GET, T_a, hv, bv)>>, <<>>)]
        : bs \in StructureBodies, bv \in ValueBodies \cup {SentinelBody},
          hv \in {<<>>, <<HeaderOf(N_Content_Type, V_application_json)>>}}
    \cup
    {[structure |-> Exchange(<<>>, <<ResponseOf(C_200, <<>>, bs)>>),
      value |-> Exchange(<<>>, <<ResponseOf(C_200, hv, bv)>>)]
        : bs \in StructureBodies, bv \in ValueBodies \cup {SentinelBody},
          hv \in {<<>>, <<HeaderOf(N_Content_Type, V_application_json)>>}}

\* A structure with two literal headers against candidates that carry them
\* in either order, lack one, differ in one or both, and that differ in
\* method or status, in target and in body as well.
OrderHeaders == <<HeaderOf(N_X_Id, <<"7">>), HeaderOf(N_Accept, <<"x">>)>>
CandidateOrders ==
    {<<HeaderOf(N_X_Id, <<"7">>), HeaderOf(N_Accept, <<"x">>)>>,
     <<HeaderOf(N_Accept, <<"x">>), HeaderOf(N_X_Id, <<"7">>)>>,
     <<HeaderOf(N_X_Id, <<"8">>), HeaderOf(N_Accept, <<"x">>)>>,
     <<HeaderOf(N_Accept, <<"x">>)>>,
     <<HeaderOf(N_Accept, <<"y">>)>>}
OrderBodies == {NoBody, UnknownBody(<<"h", "i">>), UnknownBody(<<"h", "o">>)}

\* {"a":2}
OtherJson == Obj(<<Pair(<<"a">>, JNum2)>>)

\* Two requests and two responses that pass and that differ from one
\* another in what the context keeps of them.
OrderPairs ==
    {[structure |-> Exchange(<<RequestOf(M_GET, T_a, OrderHeaders, bs)>>, <<>>),
      value |-> Exchange(<<RequestOf(m, tv, hv, bv)>>, <<>>)]
        : bs \in {NoBody, UnknownBody(<<"h", "i">>)}, m \in {M_GET, M_POST},
          tv \in {T_a, T_a_q}, hv \in CandidateOrders, bv \in OrderBodies}
    \cup
    {[structure |-> Exchange(<<>>, <<ResponseOf(C_200, OrderHeaders, bs)>>),
      value |-> Exchange(<<>>, <<ResponseOf(c, hv, bv)>>)]
        : bs \in {NoBody, UnknownBody(<<"h", "i">>)}, c \in {C_200, C_404},
          hv \in CandidateOrders, bv \in OrderBodies}
    \cup
    {[structure |->
          Exchange(<<RequestOf(M_GET, T_a, <<>>, NoBody),
                     RequestOf(M_GET, T_a, <<>>, NoBody)>>,
                   <<ResponseOf(C_200, <<>>, JsonBody(RedactedJson)),
                     ResponseOf(C_200, <<>>, JsonBody(RedactedJson))>>),
      value |->
          Exchange(<<RequestOf(M_GET, t1, <<>>, NoBody),
                     RequestOf(M_GET, t2, <<>>, NoBody)>>,
                   <<ResponseOf(C_200, <<>>, JsonBody(j1)),
                     ResponseOf(C_200, <<>>, JsonBody(j2))>>)]
        : t1 \in {T_a, T_example_com_a}, t2 \in {T_a, T_example_com_a},
          j1 \in {PlainJson, OtherJson}, j2 \in {PlainJson, OtherJson}}

\* The inputs with at most h headers and at most k messages.
HttpPairs(h, k) ==
    HeaderPairs(h) \cup MessagePairs \cup CountPairs(k) \cup ScenarioPairs
    \cup BodyPairs \cup OrderPairs \cup PostJsonPairs

-----------------------------------------------------------------------------
(* The context builders as a state machine: one step per call *)

InitJsonContext ==
    /\ op = "JsonContextBuilder::build"
    /\ \E structure \in JsonStructures(MaxStructureNodes) \cup ShallowStructures,
          value \in JsonValues(MaxValueNodes) \cup ShallowValues :
          input = [structure |-> structure, value |-> value]
    /\ calls = <<>>
    /\ trace = <<>>
    /\ result = Running

InitJsonEnforcer ==
    /\ op = "JsonContextEnforcer::visit_value"
    /\ \E structure \in JsonStructures(MaxStructureNodes),
          value \in JsonValues(MaxValueNodes - 1) :
          input = [structure |-> structure, value |-> value]
    /\ calls = <<>>
    /\ trace = <<>>
    /\ result = Running

InitHttpContext ==
    /\ op = "HttpContextBuilder::build"
    /\ \E pair \in HttpPairs(MaxHeaders, MaxMessages) :
          input = [structure |-> HttpTranscript(pair.structure.requests,
                                                pair.structure.responses),
                   value |-> HttpTranscript(pair.value.requests,
                                            pair.value.responses)]
    /\ calls = <<>>
    /\ trace = <<>>
    /\ result = Running

InitContext == InitJsonContext \/ InitJsonEnforcer \/ InitHttpContext

\* JsonContext::builder(structure, value).build()
JsonContextBuild ==
    /\ op = "JsonContextBuilder::build"
    /\ result = Running
    /\ result' = JsonContextBuilder_build(input.structure, input.value)
    /\ UNCHANGED <<op, input, calls, trace>>

\* DefaultJsonContextEnforcer.visit_value(structure, value)
JsonEnforcerVisit ==
    /\ op = "JsonContextEnforcer::visit_value"
    /\ result = Running
    /\ result' = JsonContextEnforcer_visit_value(input.structure, input.value)
    /\ UNCHANGED <<op, input, calls, trace>>

\* HttpContextBuilder::build, lines 204-208, on a candidate that parses
HttpContextBuild ==
    /\ op = "HttpContextBuilder::build"
    /\ result = Running
    /\ result' = enforce_structure(input.structure, input.value)
    /\ UNCHANGED <<op, input, calls, trace>>

\* serde::Serialize for JsonContext, lines 145-154, on the context that
\* build() has returned
JsonContextSerialize ==
    /\ op = "JsonContextBuilder::build"
    /\ result.status = "Ok"
    /\ op' = "JsonContext::serialize"
    /\ input' = [structure |-> input.structure, value |-> input.value,
                 context |-> result.value]
    /\ result' = Returns(JsonSerializationVisitor_visit_value(result.value.value))
    /\ UNCHANGED <<calls, trace>>

NextContext ==
    JsonContextBuild \/ JsonEnforcerVisit \/ HttpContextBuild
    \/ JsonContextSerialize

SpecContext == InitContext /\ [][NextContext]_vars

-----------------------------------------------------------------------------
(* What the context builders have compared *)

ComparedJson ==
    /\ op \in {"JsonContextBuilder::build", "JsonContextEnforcer::visit_value"}
    /\ result # Running

ComparedHttp == op = "HttpContextBuilder::build" /\ result # Running

Accepted == result.status = "Ok"

\* The pairs (structure node, candidate node) the comparator is called on.
RECURSIVE Visited(_, _)
Visited(structure, value) ==
    {<<structure, value>>}
    \cup (CASE structure.kind = "Array" /\ value.kind = "Array" ->
                UNION {Visited(structure.elems[i], value.elems[i]) :
                          i \in 1..Min({Len(structure.elems), Len(value.elems)})}
            [] structure.kind = "Object" /\ value.kind = "Object" ->
                UNION {Visited(structure.elems[i].value,
                               find(value.elems, structure.elems[i].key.text)[1].value) :
                          i \in {k \in 1..Len(structure.elems) :
                                    find(value.elems, structure.elems[k].key.text) # None}}
            [] OTHER -> {})

\* The structure message and the candidate message at the same place of
\* their transcripts.
ZippedMessages ==
    {<<input.structure.requests[i], input.value.requests[i]>> :
        i \in 1..Min({Len(input.structure.requests), Len(input.value.requests)})}
    \cup
    {<<input.structure.responses[i], input.value.responses[i]>> :
        i \in 1..Min({Len(input.structure.responses), Len(input.value.responses)})}

AllSentinel(bytes) == \A i \in 1..Len(bytes) : bytes[i] = SENTINEL

\* The JSON body of a message, when it has one.
JsonOf(message) ==
    IF HasJsonBody(message) THEN Some(message.body[1].content.json) ELSE None

(* C8: a Redacted structure node accepts every candidate value at its      *)
(* position, of any variant and content, and a structure header value made *)
(* of sentinel bytes only accepts any value of the matching candidate      *)
(* header.                                                                 *)
C8_WildcardAcceptance ==
    /\ ComparedJson =>
          /\ input.structure.kind = "Redacted" => Accepted
          /\ \A sv \in Visited(input.structure, input.value) :
                sv[1].kind = "Redacted" => visit_value(sv[1], sv[2]) = Ok
    /\ ComparedHttp =>
          /\ \A sm \in ZippedMessages :
                /\ \A i \in 1..Len(sm[1].headers) :
                      (/\ AllSentinel(sm[1].headers[i].value.text)
                       /\ headers_with_name(sm[2], sm[1].headers[i].name.text) # <<>>)
                          => enforce_headers(<<sm[1].headers[i]>>, sm[2], <<>>).status
                                = "Ok"
                /\ (JsonOf(sm[1]) # None /\ JsonOf(sm[2]) # None) =>
                      \A sv \in Visited(JsonOf(sm[1])[1], JsonOf(sm[2])[1]) :
                          sv[1].kind = "Redacted" => visit_value(sv[1], sv[2]) = Ok
          /\ (\A sm \in ZippedMessages :
                 \A i \in 1..Len(sm[1].headers) :
                     AllSentinel(sm[1].headers[i].value.text)
                     \/ to_lowercase(sm[1].headers[i].name.text) = N_content_length
                     \/ (/\ headers_with_name(sm[2], sm[1].headers[i].name.text) # <<>>
                         /\ headers_with_name(sm[2], sm[1].headers[i].name.text)[1].value.text
                               = sm[1].headers[i].value.text))
                => result.error # "Header value mismatch"

C8_Witness ==
    /\ ComparedHttp
    /\ Accepted
    /\ \E sm \in ZippedMessages :
          /\ \E i \in 1..Len(sm[1].headers) :
                /\ AllSentinel(sm[1].headers[i].value.text)
                /\ headers_with_name(sm[2], sm[1].headers[i].name.text) # <<>>
                /\ headers_with_name(sm[2], sm[1].headers[i].name.text)[1].value.text
                      # sm[1].headers[i].value.text
          /\ JsonOf(sm[1]) # None /\ JsonOf(sm[2]) # None
          /\ \E sv \in Visited(JsonOf(sm[1])[1], JsonOf(sm[2])[1]) :
                sv[1].kind = "Redacted" /\ sv[2].kind = "Number"

(* C9: a structure array and a candidate array are accepted if and only if *)
(* they have the same number of elements and every structure element       *)
(* accepts the candidate element at its index.                             *)
C9_ArraysSameLength ==
    (ComparedJson /\ input.structure.kind = "Array" /\ input.value.kind = "Array")
        => (Accepted <=>
               /\ Len(input.structure.elems) = Len(input.value.elems)
               /\ \A i \in 1..Len(input.structure.elems) :
                     visit_value(input.structure.elems[i],
                                 input.value.elems[i]).status = "Ok")

\* The pairs of the value under the keys that the structure has.
WithoutExtraKeys(structure, value) ==
    LET Expected(e) == \E i \in 1..Len(structure.elems) :
                           structure.elems[i].key.text = e.key.text
    IN  [value EXCEPT !.elems = SelectSeq(value.elems, Expected)]

(* C10 as stated: a structure object and a candidate object are accepted   *)
(* if and only if every structure key has some byte-equal key in the       *)
(* candidate whose value the structure's value accepts.                    *)
C10_SomeMatchingKey ==
    (ComparedJson /\ input.structure.kind = "Object" /\ input.value.kind = "Object")
        => (Accepted <=>
               \A i \in 1..Len(input.structure.elems) :
                   \E j \in 1..Len(input.value.elems) :
                       /\ input.value.elems[j].key.text
                             = input.structure.elems[i].key.text
                       /\ visit_value(input.structure.elems[i].value,
                                      input.value.elems[j].value).status = "Ok")

(* C10: a structure object and a candidate object are accepted if and only *)
(* if every structure key has a byte-equal key in the candidate and the    *)
(* value of the first such pair is accepted by the structure's value; the  *)
(* candidate's pairs under keys the structure lacks change nothing.        *)
C10_FirstMatchingKey ==
    (ComparedJson /\ input.structure.kind = "Object" /\ input.value.kind = "Object")
        => /\ Accepted <=>
                 \A i \in 1..Len(input.structure.elems) :
                     LET matching == find(input.value.elems,
                                          input.structure.elems[i].key.text)
                     IN  /\ matching # None
                         /\ visit_value(input.structure.elems[i].value,
                                        matching[1].value).status = "Ok"
           /\ result.status
                 = visit_value(input.structure,
                               WithoutExtraKeys(input.structure, input.value)).status

C10_Witness ==
    /\ ComparedJson
    /\ Accepted
    /\ input.structure.kind = "Object" /\ input.value.kind = "Object"
    /\ Len(input.structure.elems) = 1
    /\ Len(input.value.elems) = 2
    /\ input.value.elems[1].key.text # input.structure.elems[1].key.text
    /\ input.value.elems[2].key.text = input.structure.elems[1].key.text
    /\ input.structure.elems[1].value.kind = "Number"


\* The value without the pairs that follow a pair with the same key in the
\* same object, at every depth.
RECURSIVE WithoutLaterDuplicates(_)
WithoutLaterDuplicates(value) ==
    CASE value.kind = "Array" ->
            [value EXCEPT !.elems =
                [i \in 1..Len(value.elems) |->
                    WithoutLaterDuplicates(value.elems[i])]]
      [] value.kind = "Object" ->
            LET IsFirst(e) ==
                    \A i \in 1..Len(value.elems) :
                        value.elems[i].key.text = e.key.text
                            => Min(e.span) <= Min(value.elems[i].span)
                firsts == SelectSeq(value.elems, IsFirst)
            IN  [value EXCEPT !.elems =
                    [i \in 1..Len(firsts) |->
                        [firsts[i] EXCEPT !.value =
                            WithoutLaterDuplicates(firsts[i].value)]]]
      [] OTHER -> value

(* C11: when the candidate object has several pairs with the same key, the *)
(* structure's value for that key is compared against the first of them in *)
(* source order and the later ones are never consulted: the outcome is the *)
(* outcome on the candidate with its later duplicates removed.             *)
C11_FirstDuplicateOnly ==
    ComparedJson =>
        /\ result.status
              = visit_value(input.structure,
                            WithoutLaterDuplicates(input.value)).status
        /\ (input.structure.kind = "Object" /\ input.value.kind = "Object")
              => \A i \in 1..Len(input.structure.elems) :
                    \A j \in 1..Len(input.value.elems) :
                        (/\ input.value.elems[j].key.text
                               = input.structure.elems[i].key.text
                         /\ \A k \in 1..(j - 1) :
                               input.value.elems[k].key.text
                                  # input.value.elems[j].key.text
                         /\ visit_value(input.structure.elems[i].value,
                                        input.value.elems[j].value).status # "Ok")
                            => ~Accepted

C11_Witness ==
    /\ ComparedJson
    /\ Accepted
    /\ input.structure.kind = "Object" /\ input.value.kind = "Object"
    /\ Len(input.structure.elems) = 1
    /\ Len(input.value.elems) = 2
    /\ input.value.elems[1].key.text = input.structure.elems[1].key.text
    /\ input.value.elems[2].key.text = input.structure.elems[1].key.text
    /\ input.structure.elems[1].value.kind = "Number"
    /\ input.value.elems[1].value.text = input.structure.elems[1].value.text
    /\ input.value.elems[2].value.text # input.structure.elems[1].value.text


LiteralKinds == {"Bool", "Number", "String"}

(* C12: a structure leaf and a candidate leaf of the same variant among    *)
(* Bool, Number and String are accepted if and only if their source text   *)
(* is byte-identical, numbers included (1.0 against 1 is rejected); Null   *)
(* against Null is always accepted.                                        *)
C12_LeafLiteralBytes ==
    ComparedJson =>
        /\ (input.structure.kind \in LiteralKinds
            /\ input.value.kind = input.structure.kind)
              => (Accepted <=> input.structure.text = input.value.text)
        /\ (input.structure.kind = "Null" /\ input.value.kind = "Null")
              => Accepted
        /\ Accepted =>
              \A sv \in Visited(input.structure, input.value) :
                  (sv[1].kind \in LiteralKinds /\ sv[2].kind = sv[1].kind)
                      => sv[1].text = sv[2].text

C12_Witness ==
    /\ ComparedJson
    /\ ~Accepted
    /\ input.structure.kind = "Number" /\ input.value.kind = "Number"
    /\ input.structure.text = <<"1", ".", "0">>
    /\ input.value.text = <<"1">>


\* The pairs the comparator is called on in which the structure node is not
\* Redacted and the candidate node is of another variant.
VariantMismatches(structure, value) ==
    {sv \in Visited(structure, value) :
        sv[1].kind # "Redacted" /\ sv[2].kind # sv[1].kind}

(* C13: when a structure node is not Redacted and the candidate node at    *)
(* its position is of a different variant, the comparison is rejected; a   *)
(* Redacted candidate node is rejected against every structure node that   *)
(* is not Redacted.                                                        *)
C13_VariantMismatchRejects ==
    /\ ComparedJson =>
          /\ VariantMismatches(input.structure, input.value) # {} => ~Accepted
          /\ (input.value.kind = "Redacted" /\ input.structure.kind # "Redacted")
                => result.status = "Panic"
    /\ ComparedHttp =>
          \A sm \in ZippedMessages :
              (/\ JsonOf(sm[1]) # None /\ JsonOf(sm[2]) # None
               /\ VariantMismatches(JsonOf(sm[1])[1], JsonOf(sm[2])[1]) # {})
                  => ~Accepted

C13_Witness ==
    /\ ComparedJson
    /\ ~Accepted
    /\ input.structure.kind = "Object" /\ input.value.kind = "Object"
    /\ Len(input.structure.elems) = 1 /\ Len(input.value.elems) = 1
    /\ input.structure.elems[1].key.text = input.value.elems[1].key.text
    /\ input.structure.elems[1].value.kind = "Number"
    /\ input.value.elems[1].value.kind = "Redacted"


SameCounts ==
    /\ Len(input.value.requests) = Len(input.structure.requests)
    /\ Len(input.value.responses) = Len(input.structure.responses)

CountMismatch ==
    {Panics("Request count mismatch"), Panics("Response count mismatch")}

(* C14: HTTP enforcement succeeds only if the candidate has as many        *)
(* requests and as many responses as the structure; when a count differs   *)
(* the operation fails on the count, before any pair of messages is        *)
(* examined, whatever the messages hold.                                   *)
C14_CountsChecked ==
    ComparedHttp =>
        /\ Accepted => SameCounts
        /\ ~SameCounts => result \in CountMismatch
        /\ Len(input.value.requests) # Len(input.structure.requests)
              => result = Panics("Request count mismatch")

C14_Witness ==
    /\ ComparedHttp
    /\ Len(input.structure.requests) = 1
    /\ Len(input.value.requests) = 2
    /\ input.value.requests[1].request.method.text
          # input.structure.requests[1].request.method.text
    /\ result = Panics("Request count mismatch")


\* The structure request and the candidate request at the same place.
ZippedRequests ==
    {<<input.structure.requests[i], input.value.requests[i]>> :
        i \in 1..Min({Len(input.structure.requests), Len(input.value.requests)})}

\* Both targets resolve, path and query are byte-equal and, when the
\* structure target does not begin with '/', the hosts are equal.
TargetsAgree(structure_target, request_target) ==
    LET s == Url_join(structure_target)
        r == Url_join(request_target)
    IN  /\ s.status = "Ok" /\ r.status = "Ok"
        /\ s.value.path = r.value.path
        /\ s.value.query = r.value.query
        /\ ~IsPrefix(<<"/">>, structure_target) => s.value.host = r.value.host

\* The target with the scheme https for http, without its userinfo and
\* without its fragment.
Bare(t) ==
    LET u == SubSeq(t, 1, Min({i \in 1..Len(t) : t[i] = "#"} \cup {Len(t) + 1}) - 1)
        v == IF IsPrefix(HTTP, u) THEN HTTPS \o Drop(u, Len(HTTP)) ELSE u
        ends == {i \in (Len(HTTPS) + 1)..Len(v) : v[i] \in {"/", "?"}}
        ats == {i \in (Len(HTTPS) + 1)..Len(v) :
                   v[i] = "@" /\ \A e \in ends : i < e}
    IN  IF IsPrefix(HTTPS, v) /\ ats # {} THEN HTTPS \o Drop(v, Max(ats)) ELSE v

HasScheme(t) == IsPrefix(HTTPS, Bare(t))

TargetFailures == {Panics("Request target mismatch"), Err("empty host")}

Named(message, name) ==
    {j \in 1..Len(message.headers) :
        to_lowercase(message.headers[j].name.text) = to_lowercase(name)}

IsContentLength(header) == to_lowercase(header.name.text) = N_content_length

\* What the structure header asks of the candidate message.
HeaderAgrees(header, message) ==
    \/ IsContentLength(header)
    \/ /\ Named(message, header.name.text) # {}
       /\ ~AllSentinel(header.value.text)
             => message.headers[Min(Named(message, header.name.text))].value.text
                   = header.value.text

HeadersAgree(sm) ==
    \A i \in 1..Len(sm[1].headers) : HeaderAgrees(sm[1].headers[i], sm[2])

IsRequest(message) == "request" \in DOMAIN message

\* What enforce_structure checks of a pair of messages before its headers.
StartAgrees(sm) ==
    IF IsRequest(sm[1])
    THEN /\ sm[2].request.method.text = sm[1].request.method.text
         /\ TargetsAgree(sm[1].request.target.text, sm[2].request.target.text)
    ELSE sm[2].status.code.text = sm[1].status.code.text

\* The first pair of messages enforce_structure examines.
FirstZipped ==
    IF input.structure.requests # <<>> /\ input.value.requests # <<>>
    THEN {<<input.structure.requests[1], input.value.requests[1]>>}
    ELSE IF input.structure.responses # <<>> /\ input.value.responses # <<>>
    THEN {<<input.structure.responses[1], input.value.responses[1]>>}
    ELSE {}

HeaderFailures ==
    {Err("Missing required header"), Panics("Header value mismatch")}

(* C16: for every structure header but content-length (in any case) the    *)
(* candidate message must have a header of that name, compared without     *)
(* case, even when the structure value is a pure wildcard; when the        *)
(* structure value has a byte that is not '*', the value of the first      *)
(* candidate header of that name must be byte-identical to it ('*' within  *)
(* a mixed value is literal) and the later ones are not consulted; a       *)
(* structure content-length header never causes a failure.                 *)
C16_HeaderEnforcement ==
    ComparedHttp =>
        /\ Accepted => \A sm \in ZippedMessages : HeadersAgree(sm)
        /\ result \in HeaderFailures
              => \E sm \in ZippedMessages : ~HeadersAgree(sm)
        /\ \A sm \in FirstZipped :
              (SameCounts /\ StartAgrees(sm) /\ ~HeadersAgree(sm))
                  => result \in HeaderFailures
        /\ \A sm \in FirstZipped :
              (/\ SameCounts /\ StartAgrees(sm)
               /\ \E i \in 1..Len(sm[1].headers) :
                     /\ ~IsContentLength(sm[1].headers[i])
                     /\ Named(sm[2], sm[1].headers[i].name.text) = {})
                  => result.status = "Err"

C16_Witness ==
    /\ ComparedHttp
    /\ Accepted
    /\ \E sm \in ZippedMessages :
          \E i \in 1..Len(sm[1].headers) :
              LET named == Named(sm[2], sm[1].headers[i].name.text)
              IN  /\ ~AllSentinel(sm[1].headers[i].value.text)
                  /\ Cardinality(named) = 2
                  /\ sm[2].headers[Max(named)].value.text
                        # sm[1].headers[i].value.text
                  /\ sm[2].headers[Max(named)].name.text
                        # sm[1].headers[i].name.text


\* The structure headers that propagate: named in the structure, not
\* content-length, with a byte that is not the sentinel; each with the name
\* and the value of the candidate's first header of that name.
Propagates(header) ==
    ~IsContentLength(header) /\ ~AllSentinel(header.value.text)

Propagated(sm) ==
    LET kept == SelectSeq(sm[1].headers, Propagates)
    IN  [i \in 1..Len(kept) |->
            LET first == sm[2].headers[Min(Named(sm[2], kept[i].name.text))]
            IN  <<first.name.text, first.value.text>>]

(* C17: the headers of every emitted RequestContext and ResponseContext    *)
(* are exactly the structure's headers, other than content-length, whose   *)
(* value has a byte that is not the sentinel: wildcarded structure headers *)
(* and candidate headers the structure does not name are not in them.      *)
C17_PropagatedHeaders ==
    (ComparedHttp /\ Accepted) =>
        /\ \A i \in 1..Len(result.value.requests) :
              result.value.requests[i].headers
                 = Propagated(<<input.structure.requests[i], input.value.requests[i]>>)
        /\ \A i \in 1..Len(result.value.responses) :
              result.value.responses[i].headers
                 = Propagated(<<input.structure.responses[i], input.value.responses[i]>>)

C17_Witness ==
    /\ ComparedHttp
    /\ Accepted
    /\ Len(result.value.requests) = 1
    /\ Len(input.structure.requests[1].headers) = 2
    /\ AllSentinel(input.structure.requests[1].headers[1].value.text)
    /\ Len(input.value.requests[1].headers) = 3
    /\ Named(input.structure.requests[1],
             input.value.requests[1].headers[2].name.text) = {}
    /\ result.value.requests[1].headers = <<<<N_X_Id, <<"7">>>>>>


\* The input is one structure request whose only header is Host with a
\* pure wildcard value and no body, and one candidate request with the same
\* method and target, the header Host: example.com and no body.
HostWildcardScenario ==
    /\ ComparedHttp
    /\ Len(input.structure.requests) = 1 /\ Len(input.value.requests) = 1
    /\ input.structure.responses = <<>> /\ input.value.responses = <<>>
    /\ LET structure_request == input.structure.requests[1]
           request == input.value.requests[1]
       IN  /\ Len(structure_request.headers) = 1
           /\ structure_request.headers[1].name.text = N_Host
           /\ structure_request.headers[1].value.text = <<SENTINEL>>
           /\ structure_request.body = None
           /\ request.request.method.text = M_GET
           /\ request.request.method.text = structure_request.request.method.text
           /\ request.request.target.text = T_a
           /\ request.request.target.text = structure_request.request.target.text
           /\ Len(request.headers) = 1
           /\ request.headers[1].name.text = N_Host
           /\ request.headers[1].value.text = BASE_HOST
           /\ request.body = None

(* C18: for a structure request whose Host header value is the pure        *)
(* wildcard '*' and a candidate with the same method and target and the    *)
(* header Host: example.com, enforcement accepts and the emitted           *)
(* RequestContext has method GET, target /a, no body, and its headers      *)
(* contain the candidate's header (Host, example.com).                     *)
C18_HostWildcardInContext ==
    HostWildcardScenario =>
        /\ Accepted
        /\ Len(result.value.requests) = 1
        /\ result.value.requests[1].method = M_GET
        /\ result.value.requests[1].target = T_a
        /\ result.value.requests[1].body = None
        /\ \E k \in 1..Len(result.value.requests[1].headers) :
              result.value.requests[1].headers[k] = <<N_Host, BASE_HOST>>


\* What the structure's body asks of the candidate's body.
BodiesAgree(sm) ==
    \/ sm[1].body = None
    \/ /\ sm[2].body # None
       /\ LET s == sm[1].body[1].content
              v == sm[2].body[1].content
          IN  \/ /\ s.class = "Json" /\ v.class = "Json"
                 /\ visit_value(s.json, v.json).status = "Ok"
              \/ /\ s.class = "Unknown" /\ v.class = "Unknown"
                 /\ s.bytes = v.bytes

\* The body of the emitted context of an accepted pair.
BodyContextOf(sm) ==
    IF sm[1].body = None THEN None
    ELSE LET v == sm[2].body[1].content
         IN  IF v.class = "Json"
             THEN Some([class |-> "Json", context |-> [value |-> v.json]])
             ELSE Some([class |-> "Unknown", context |-> v.bytes])

BodyErrors ==
    {"Request body missing", "Response body missing", "Body type mismatch",
     "Body content mismatch"}

\* The structure and the candidate differ in the class of their bodies.
ClassesDiffer(sm) ==
    /\ sm[1].body # None /\ sm[2].body # None
    /\ sm[1].body[1].content.class # sm[2].body[1].content.class

(* C19: when the structure message declares a body and the candidate has   *)
(* none, enforcement fails; a Json body against a Json body is accepted if *)
(* and only if the JSON comparator accepts, and yields BodyContext::Json;  *)
(* an Unknown body against an Unknown body is accepted if and only if the  *)
(* bytes are identical, and yields BodyContext::Unknown with the           *)
(* candidate's bytes; every other pairing of content classes fails.        *)
C19_BodyEnforcement ==
    ComparedHttp =>
        /\ Accepted =>
              /\ \A sm \in ZippedMessages : BodiesAgree(sm)
              /\ \A i \in 1..Len(result.value.requests) :
                    result.value.requests[i].body
                       = BodyContextOf(<<input.structure.requests[i],
                                         input.value.requests[i]>>)
              /\ \A i \in 1..Len(result.value.responses) :
                    result.value.responses[i].body
                       = BodyContextOf(<<input.structure.responses[i],
                                         input.value.responses[i]>>)
        /\ result.error \in BodyErrors
              => \E sm \in ZippedMessages : ~BodiesAgree(sm)
        /\ \A sm \in FirstZipped :
              (SameCounts /\ StartAgrees(sm) /\ HeadersAgree(sm))
                  => /\ ~BodiesAgree(sm) => ~Accepted
                     /\ (sm[1].body # None /\ sm[2].body = None)
                           => /\ result.status = "Err"
                              /\ result.error \in BodyErrors
                     /\ ClassesDiffer(sm)
                           => result = Err("Body type mismatch")

C19_Witness ==
    /\ ComparedHttp
    /\ result = Err("Body type mismatch")
    /\ \E sm \in ZippedMessages :
          /\ sm[1].body # None /\ sm[2].body # None
          /\ sm[1].body[1].content.class = "Json"
          /\ sm[2].body[1].content.class = "Unknown"
          /\ AllSentinel(sm[2].body[1].content.bytes)


\* Every check of a pair of messages passes.
MessageAgrees(sm) == StartAgrees(sm) /\ HeadersAgree(sm) /\ BodiesAgree(sm)

(* C20: build() yields no partial HttpContext: it returns an HttpContext   *)
(* only if the counts agree and every check of every pair of requests and  *)
(* of every pair of responses passed; the context then has one             *)
(* RequestContext per structure request and one ResponseContext per        *)
(* structure response, in order; on any failure no HttpContext is returned.*)
C20_NoPartialContext ==
    ComparedHttp =>
        /\ Accepted =>
              /\ SameCounts
              /\ \A sm \in ZippedMessages : MessageAgrees(sm)
              /\ Len(result.value.requests) = Len(input.structure.requests)
              /\ Len(result.value.responses) = Len(input.structure.responses)
              /\ \A i \in 1..Len(result.value.requests) :
                    /\ result.value.requests[i].method
                          = input.value.requests[i].request.method.text
                    /\ result.value.requests[i].target
                          = input.value.requests[i].request.target.text
              /\ \A i \in 1..Len(result.value.responses) :
                    result.value.responses[i].status
                       = input.value.responses[i].status.code.text
        /\ (~SameCounts \/ \E sm \in ZippedMessages : ~MessageAgrees(sm))
              => result.status \in {"Err", "Panic"} /\ result.value = <<>>

C20_Witness ==
    /\ ComparedHttp
    /\ SameCounts
    /\ Len(input.structure.requests) = 2
    /\ MessageAgrees(<<input.structure.requests[1], input.value.requests[1]>>)
    /\ ~MessageAgrees(<<input.structure.requests[2], input.value.requests[2]>>)
    /\ ~Accepted
    /\ result.value = <<>>


-----------------------------------------------------------------------------
\* The messages of the panics the comparators can raise.
PanicMessages ==
    {"Request count mismatch", "Response count mismatch",
     "Request method mismatch", "Request target mismatch",
     "Response status mismatch", "Header value mismatch",
     "Body content mismatch", "assertion left == right failed",
     "Type mismatch", "Missing key", "index out of bounds"}

(* C21: every enforcement violation is reported as an error value returned *)
(* from build() and never as a panic: a request or response count          *)
(* mismatch, a method, target or status mismatch, a header value mismatch, *)
(* a content mismatch of Unknown bodies, a JSON literal or variant         *)
(* mismatch, a missing JSON key and a candidate array shorter than the     *)
(* structure array all produce Err(..).                                    *)
C21_ViolationsAreErrors ==
    (ComparedJson \/ ComparedHttp) =>
        /\ result.status \in {"Ok", "Err"}
        /\ result.error \notin PanicMessages


-----------------------------------------------------------------------------
\* The (name, value) pairs of the headers of a message, in its order.
HeaderPairsOf(message) ==
    [i \in 1..Len(message.headers) |->
        <<message.headers[i].name.text, message.headers[i].value.text>>]

\* s can be had from t by leaving members of t out.
IsSubsequence(s, t) ==
    \E f \in [1..Len(s) -> 1..Len(t)] :
        /\ \A i \in 1..Len(s) : s[i] = t[f[i]]
        /\ \A i, j \in 1..Len(s) : i < j => f[i] < f[j]

\* The requests and the responses of the context stand for the candidate's
\* messages at the same places.
MessagesInCandidateOrder ==
    /\ Len(result.value.requests) = Len(input.value.requests)
    /\ Len(result.value.responses) = Len(input.value.responses)
    /\ \A i \in 1..Len(result.value.requests) :
          /\ result.value.requests[i].target
                = input.value.requests[i].request.target.text
          /\ result.value.requests[i].method
                = input.value.requests[i].request.method.text
          /\ result.value.requests[i].body
                = BodyContextOf(<<input.structure.requests[i],
                                  input.value.requests[i]>>)
    /\ \A i \in 1..Len(result.value.responses) :
          /\ result.value.responses[i].status
                = input.value.responses[i].status.code.text
          /\ result.value.responses[i].body
                = BodyContextOf(<<input.structure.responses[i],
                                  input.value.responses[i]>>)

HeadersInCandidateOrder ==
    /\ \A i \in 1..Len(result.value.requests) :
          IsSubsequence(result.value.requests[i].headers,
                        HeaderPairsOf(input.value.requests[i]))
    /\ \A i \in 1..Len(result.value.responses) :
          IsSubsequence(result.value.responses[i].headers,
                        HeaderPairsOf(input.value.responses[i]))

(* C22: the emitted HttpContext preserves the ordering of the candidate:   *)
(* requests and responses appear in candidate order, and within each       *)
(* message the emitted headers appear in the order in which those headers  *)
(* occur in the candidate message, not in the order the structure lists    *)
(* them.                                                                   *)
C22_CandidateOrder ==
    (ComparedHttp /\ Accepted) =>
        MessagesInCandidateOrder /\ HeadersInCandidateOrder


-----------------------------------------------------------------------------
\* The context has been serialized.
Serialized == op = "JsonContext::serialize"

\* The nodes of a value that the serialized output shows, each with what
\* the output shows for it.
RECURSIVE Shown(_, _)
Shown(value, out) ==
    {<<value, out>>}
    \cup (CASE value.kind = "Array" ->
                UNION {Shown(value.elems[i], out.elems[i]) :
                          i \in 1..Len(value.elems)}
            [] value.kind = "Object" ->
                UNION {Shown(value.elems[i].value, out.map[value.elems[i].key.text]) :
                          i \in {k \in 1..Len(value.elems) :
                                    \A n \in (k + 1)..Len(value.elems) :
                                        value.elems[n].key.text
                                           # value.elems[k].key.text}}
            [] OTHER -> {})

(* C23: JsonContext serialization maps every Redacted leaf to the string   *)
(* "__REDACTED__" and every Number leaf by first attempting an integer     *)
(* parse of its text, then a float parse, and only if both fail emitting   *)
(* the raw text as a string: a number text that is a valid float but not a *)
(* valid integer, with or without a '.', serializes as a JSON number.      *)
C23_NumberSerialization ==
    Serialized =>
        \A shown \in Shown(input.context.value, result.value) :
            /\ shown[1].kind = "Redacted"
                  => shown[2] = SerdeString(REDACTED_STRING)
            /\ shown[1].kind = "Number"
                  => /\ shown[2] = visit_number_integer_then_float(shown[1].text)
                     /\ parse_f64(shown[1].text) # None
                           => shown[2].kind = "Number"


-----------------------------------------------------------------------------
\* The keys of an object.
KeysOf(object) == {object.elems[i].key.text : i \in 1..Len(object.elems)}

\* The context of the JSON body of a candidate message.
JsonContextOf(message) ==
    Some([class |-> "Json", context |-> [value |-> JsonOf(message)[1]]])

(* C24: when JSON enforcement accepts, the JsonContext wraps the candidate *)
(* value unchanged, never the structure: the emitted body is the           *)
(* candidate's JSON with every key and value of it, the keys absent from   *)
(* the structure included, and with the candidate's actual values where    *)
(* the structure has Redacted placeholders.                                *)
C24_ContextIsCandidate ==
    /\ (op = "JsonContextBuilder::build" /\ result # Running /\ Accepted)
          => result.value = [value |-> input.value]
    /\ (ComparedHttp /\ Accepted) =>
          /\ \A i \in 1..Len(input.structure.requests) :
                HasJsonBody(input.structure.requests[i])
                    => result.value.requests[i].body
                          = JsonContextOf(input.value.requests[i])
          /\ \A i \in 1..Len(input.structure.responses) :
                HasJsonBody(input.structure.responses[i])
                    => result.value.responses[i].body
                          = JsonContextOf(input.value.responses[i])
    /\ Serialized =>
          /\ input.context = [value |-> input.value]
          /\ input.value.kind = "Object"
                => DOMAIN result.value.map = KeysOf(input.value)

C24_Witness ==
    /\ ComparedHttp
    /\ Accepted
    /\ Len(input.structure.requests) = 1
    /\ LET structure == JsonOf(input.structure.requests[1])[1]
           emitted == result.value.requests[1].body[1].context.value
       IN  /\ HasJsonBody(input.structure.requests[1])
           /\ emitted = JsonOf(input.value.requests[1])[1]
           /\ emitted # structure
           /\ K_extra \in KeysOf(emitted) \ KeysOf(structure)
           /\ find(structure.elems, K_id)[1].value.kind = "Redacted"
           /\ find(emitted.elems, K_id)[1].value.text = JNum42.text


-----------------------------------------------------------------------------
(* The spans of the values given to commit_value *)

CommittingValue == op = "commit_value"

\* The nodes of a value, and the pairs of its objects.
RECURSIVE NodesOf(_)
NodesOf(json) ==
    {json}
    \cup (CASE json.kind = "Array" ->
                UNION {NodesOf(json.elems[i]) : i \in 1..Len(json.elems)}
            [] json.kind = "Object" ->
                UNION {NodesOf(json.elems[i].value) : i \in 1..Len(json.elems)}
            [] OTHER -> {})

PairsOf(json) ==
    UNION {Range(node.elems) : node \in {n \in NodesOf(json) : n.kind = "Object"}}

\* The sets are pairwise disjoint and their union is the whole.
Partition(parts, whole) ==
    /\ \A i, j \in 1..Len(parts) : i < j => parts[i] \cap parts[j] = {}
    /\ UnionOf(parts) = whole

SpansOf(elems) == [i \in 1..Len(elems) |-> elems[i].span]

-----------------------------------------------------------------------------
\* The byte of the parsed text at a position of the buffer.
ByteAt(pos) == input.source.bytes[pos - input.source.off + 1]

WHITESPACE == {" ", "\t", "\n", "\r"}

(* C26: Array.separators() contains only commas and the whitespace that    *)
(* surrounds them: for every array, each position in separators() holds a  *)
(* comma or a whitespace byte, whatever the variants of the elements,      *)
(* String elements (whose span excludes their quotation marks) included.   *)
C26_SeparatorsAreCommas ==
    CommittingValue =>
        \A node \in NodesOf(input.json) :
            node.kind = "Array" =>
                \A pos \in Array_separators(node) :
                    ByteAt(pos) \in {","} \cup WHITESPACE


-----------------------------------------------------------------------------
\* TranscriptCommitment::contains: a commitment to exactly these positions
\* in the direction of the value has been added.
Contains(ranges) ==
    \E i \in 1..Len(trace) :
        /\ trace[i].ranges = ranges
        /\ trace[i].direction = input.direction
        /\ trace[i].ret = "Ok"

-----------------------------------------------------------------------------
\* How a check ends: passed, or the kind and the message of its failure.
Passed == <<"Ok", "">>
EndOf(outcome) ==
    IF outcome.status = "Ok" THEN Passed ELSE <<outcome.status, outcome.error>>

\* The first check of a sequence that does not pass, if any does not.
FirstFailure(checks) ==
    LET failed == {i \in 1..Len(checks) : checks[i] # Passed}
    IN  IF failed = {} THEN Passed ELSE checks[Min(failed)]

CountChecks ==
    <<IF Len(input.value.requests) # Len(input.structure.requests)
      THEN <<"Panic", "Request count mismatch">> ELSE Passed,
      IF Len(input.value.responses) # Len(input.structure.responses)
      THEN <<"Panic", "Response count mismatch">> ELSE Passed>>

\* One check for each header the structure names, in the structure's order.
HeaderChecks(structure_message, message) ==
    LET named == structure_headers(structure_message)
    IN  [i \in 1..Len(named) |->
            EndOf(enforce_headers(<<named[i]>>, message, <<>>))]

RequestChecks(structure_request, request) ==
    <<IF request.request.method.text # structure_request.request.method.text
      THEN <<"Panic", "Request method mismatch">> ELSE Passed,
      EndOf(enforce_request_target(request, structure_request))>>
    \o HeaderChecks(structure_request, request)
    \o <<EndOf(enforce_optional_body(structure_request, request,
                                     "Request body missing"))>>

ResponseChecks(structure_response, response) ==
    <<IF response.status.code.text # structure_response.status.code.text
      THEN <<"Panic", "Response status mismatch">> ELSE Passed>>
    \o HeaderChecks(structure_response, response)
    \o <<EndOf(enforce_optional_body(structure_response, response,
                                     "Response body missing"))>>

\* Every check in the order of the claim: the counts, then request after
\* request, then response after response.
ChecksInOrder ==
    CountChecks
    \o Concat([i \in 1..Min({Len(input.structure.requests),
                             Len(input.value.requests)}) |->
                  RequestChecks(input.structure.requests[i],
                                input.value.requests[i])])
    \o Concat([i \in 1..Min({Len(input.structure.responses),
                             Len(input.value.responses)}) |->
                  ResponseChecks(input.structure.responses[i],
                                 input.value.responses[i])])

(* C28: the checks run in a fixed order: the count check first, then for   *)
(* each request the method, the target, the headers in structure order and *)
(* the body, all requests before any response, and for each response the   *)
(* status, the headers and the body; the failure build() reports is the    *)
(* first violation in that order.                                          *)
C28_FirstViolationReported ==
    ComparedHttp => EndOf(result) = FirstFailure(ChecksInOrder)

C28_Witness ==
    /\ ComparedHttp
    /\ EndOf(result) = <<"Panic", "Request method mismatch">>
    /\ Len(input.structure.requests) = 1
    /\ Len(input.value.requests) = 1
    /\ LET checks == RequestChecks(input.structure.requests[1],
                                   input.value.requests[1])
       IN  /\ checks[1] # Passed
           /\ checks[2] # Passed
           /\ \E i \in 3..(Len(checks) - 1) :
                 checks[i] = <<"Err", "Missing required header">>
           /\ checks[Len(checks)] # Passed


-----------------------------------------------------------------------------
(* C29: the value the serialized JsonContext shows for an object key is    *)
(* the value that was checked against the structure: for every key named   *)
(* in the structure object, the serialized output's entry for the key is   *)
(* derived from the candidate pair that visit_object compared, also when   *)
(* the candidate object has the key more than once.                        *)
C29_SerializedIsChecked ==
    (Serialized /\ input.structure.kind = "Object"
                /\ input.context.value.kind = "Object") =>
        \A i \in 1..Len(input.structure.elems) :
            LET key == input.structure.elems[i].key.text
                compared == find(input.context.value.elems, key)[1]
            IN  result.value.map[key]
                   = JsonSerializationVisitor_visit_value(compared.value)


-----------------------------------------------------------------------------
\* The candidate messages without their bodies where the structure message
\* at the same place declares none.
Unbodied(structures, messages) ==
    [i \in 1..Len(messages) |->
        IF i <= Len(structures) /\ structures[i].body = None
        THEN [messages[i] EXCEPT !.body = None]
        ELSE messages[i]]

UnbodiedCandidate ==
    [input.value EXCEPT
        !.requests = Unbodied(input.structure.requests, input.value.requests),
        !.responses = Unbodied(input.structure.responses,
                               input.value.responses)]

(* C30: when a structure message declares no body, the emitted             *)
(* RequestContext or ResponseContext has body = None whatever the          *)
(* candidate holds: a candidate body of any class and content is neither   *)
(* compared nor emitted, and its presence never causes a failure.          *)
C30_NoStructureBody ==
    ComparedHttp =>
        /\ result = enforce_structure(input.structure, UnbodiedCandidate)
        /\ Accepted =>
              /\ \A i \in 1..Len(input.structure.requests) :
                    input.structure.requests[i].body = None
                        => result.value.requests[i].body = None
              /\ \A i \in 1..Len(input.structure.responses) :
                    input.structure.responses[i].body = None
                        => result.value.responses[i].body = None

C30_Witness ==
    /\ ComparedHttp
    /\ Accepted
    /\ Len(input.structure.responses) = 1
    /\ input.structure.responses[1].body = None
    /\ input.value.responses[1].body # None
    /\ input.value.responses[1].body[1].content.class = "Unknown"
    /\ AllSentinel(input.value.responses[1].body[1].content.bytes)
    /\ UnbodiedCandidate # input.value
    /\ result.value.responses[1].body = None

=============================================================================
